---- MODULE Spec2Model ----
(***************************************************************************)
(* A model of the Azul rules engine (crate azul_movegen) and of its        *)
(* AzulFEN codec (crate interface).                                        *)
(*                                                                         *)
(* The engine is modelled at a reduced scale: the board dimension, the     *)
(* number of tiles per type, the bowl capacity and the number of players   *)
(* are parameters of the model.  The source fixes BOARD_DIMENSION = 5      *)
(* (board.rs:5), TILES_PER_TYPE = 20 (gamestate.rs:11) and                 *)
(* BOWL_CAPACITY = 4 (gamestate.rs:14); every operator below is written    *)
(* in terms of these names exactly as the source is, so the scale is the   *)
(* only difference.                                                        *)
(*                                                                         *)
(* Indices are 0-based as in the source: arrays and vectors are functions  *)
(* on 0..n-1, except Vec<Tile> values (bowl tiles, bag items), which are   *)
(* TLA+ sequences.  Option<T> is T plus the value None.                    *)
(*                                                                         *)
(* Bag<Tile> keeps its items in the order of a random shuffle and pops     *)
(* from the end.  Nothing in the engine reads that order before a pop, so  *)
(* the model keeps the number of items of each type and lets every pop     *)
(* return any item that is left: the same draws are possible.              *)
(***************************************************************************)
EXTENDS Integers, Sequences, FiniteSets, TLC

VARIABLES
    active_player,      \* GameState.active_player
    boards,             \* GameState.boards : Vec<Board>
    bowls,              \* GameState.bowls  : Vec<Bowl> (index 0 is the centre)
    bag,                \* GameState.bag.items : tile type -> number of items
    first_token_owner,  \* GameState.first_token_owner : Option<usize>
    panicked,           \* TRUE once an operation has aborted the process
    rounds,             \* number of setup_next_round calls made so far
    moves,              \* number of moves accepted so far
    last                \* the last call made by the caller, its result and,
                        \* when it is an accepted move, the move

vars ==
    <<active_player, boards, bowls, bag, first_token_owner, panicked, rounds,
      moves, last>>

-----------------------------------------------------------------------------
(* Scale of the model *)

\* board.rs:5 has 5
BOARD_DIMENSION == 2

\* gamestate.rs:11 has 20
TILES_PER_TYPE == 3

\* gamestate.rs:14 has 4
BOWL_CAPACITY == 2

\* the argument of GameState::new
NumPlayers == 1

\* number of setup_next_round calls explored in one game
MaxRounds == 2

\* number of accepted moves explored in one game
MaxMoves == 5

-----------------------------------------------------------------------------
(* Program constants *)

ROW_BONUS == 2

COLUMN_BONUS == 7

TILE_TYPE_BONUS == 10

CENTRE_BOWL_IDX == 0

PENALTY_TABLE == <<1, 1, 2, 2, 2, 3, 3>>

None == -1

Idx == 0 .. (BOARD_DIMENSION - 1)

Tiles == 0 .. (BOARD_DIMENSION - 1)

-----------------------------------------------------------------------------
(* Vec helpers *)

Min(a, b) == IF a < b THEN a ELSE b

Max(a, b) == IF a > b THEN a ELSE b

\* usize::saturating_sub
saturating_sub(a, b) == IF a > b THEN a - b ELSE 0

\* iter().filter(|x| x == t).count()
CountIn(s, t) == Cardinality({i \in DOMAIN s : s[i] = t})

RECURSIVE SumSeq(_)
SumSeq(s) == IF s = <<>> THEN 0 ELSE Head(s) + SumSeq(Tail(s))

\* insert x into the sorted sequence s
RECURSIVE Insert(_, _)
Insert(x, s) ==
    IF s = <<>> THEN <<x>>
    ELSE IF x <= Head(s) THEN <<x>> \o s
    ELSE <<Head(s)>> \o Insert(x, Tail(s))

\* Vec::sort
RECURSIVE Sort(_)
Sort(s) == IF s = <<>> THEN <<>> ELSE Insert(Head(s), Sort(Tail(s)))

\* Vec::dedup: removes consecutive repeated elements
RECURSIVE dedup(_)
dedup(s) ==
    IF Len(s) <= 1 THEN s
    ELSE IF s[1] = s[2] THEN dedup(Tail(s))
    ELSE <<s[1]>> \o dedup(Tail(s))

\* Vec::contains
Contains(s, x) == \E i \in DOMAIN s : s[i] = x

\* the reverse of a sequence
Reverse(s) == [i \in 1 .. Len(s) |-> s[Len(s) + 1 - i]]

\* all orders of a multiset of tiles given as a function tile -> count:
\* the possible results of SliceRandom::shuffle
RECURSIVE Shuffles(_)
Shuffles(cnt) ==
    IF \A t \in DOMAIN cnt : cnt[t] = 0 THEN {<<>>}
    ELSE UNION {{<<t>> \o s : s \in Shuffles([cnt EXCEPT ![t] = @ - 1])} :
                t \in {u \in DOMAIN cnt : cnt[u] > 0}}

-----------------------------------------------------------------------------
(* row.rs *)

Floor == [wall |-> FALSE, idx |-> 0]

Wall(i) == [wall |-> TRUE, idx |-> i]


-----------------------------------------------------------------------------
(* board.rs *)

EmptyGrid == [r \in Idx |-> [c \in Idx |-> None]]

NoBonuses ==
    [rows |-> [i \in Idx |-> FALSE],
     columns |-> [i \in Idx |-> FALSE],
     tile_types |-> [i \in Idx |-> FALSE]]

\* Board::default()
DefaultBoard ==
    [holds |-> EmptyGrid, placed |-> EmptyGrid, bonuses |-> NoBonuses,
     penalties |-> 0, score |-> 0]

\* Option::is_some
is_some(x) == x # None

\* slice.get(i).is_some(): the index is in range, whatever the element is
get_is_some(row, i) == i \in DOMAIN row

\* get_tile_type_at_pos without the shift by the row
get_tile_type_at_pos_unshifted(row, col) == col % BOARD_DIMENSION

get_tile_type_at_pos(row, col) == (col + BOARD_DIMENSION - row) % BOARD_DIMENSION

\* get_tile_place_col without the shift by the row
get_tile_place_col_unshifted(tile_type, row_idx) == tile_type % BOARD_DIMENSION

get_tile_place_col(tile_type, row_idx) == (tile_type + row_idx) % BOARD_DIMENSION

\* get_penalty_point_value charging one point for every penalty tile
get_penalty_point_value_linear(penalty_tiles) == penalty_tiles

get_penalty_point_value(penalty_tiles) ==
    SumSeq(SubSeq(PENALTY_TABLE, 1, Min(penalty_tiles, Len(PENALTY_TABLE))))

\* the tiles of holds then placed, in iteration order
get_active_tiles(b) ==
    LET cells == [k \in 1 .. (2 * BOARD_DIMENSION * BOARD_DIMENSION) |->
                    LET j == (k - 1) % (BOARD_DIMENSION * BOARD_DIMENSION)
                        g == IF k <= BOARD_DIMENSION * BOARD_DIMENSION
                             THEN b.holds ELSE b.placed
                    IN  g[j \div BOARD_DIMENSION][j % BOARD_DIMENSION]]
    IN  SelectSeq(cells, is_some)

\* row_is_valid without the test of the tiles held in the row
row_is_valid_ignoring_holds(b, tile_type, row_idx) ==
    ~ (b.placed[row_idx][get_tile_place_col(tile_type, row_idx)] = tile_type)

\* row_is_valid without the test of the placed tile
row_is_valid_ignoring_placed(b, tile_type, row_idx) ==
    ~ \E c \in Idx : is_some(b.holds[row_idx][c]) /\ b.holds[row_idx][c] # tile_type

\* does the loop body of get_valid_rows_for_tile_type push Wall(row_idx)
row_is_valid(b, tile_type, row_idx) ==
    /\ ~ \E c \in Idx : is_some(b.holds[row_idx][c]) /\ b.holds[row_idx][c] # tile_type
    /\ ~ (b.placed[row_idx][get_tile_place_col(tile_type, row_idx)] = tile_type)

RECURSIVE valid_wall_rows(_, _, _)
valid_wall_rows(b, tile_type, row_idx) ==
    IF row_idx >= BOARD_DIMENSION THEN <<>>
    ELSE (IF row_is_valid(b, tile_type, row_idx) THEN <<Wall(row_idx)>> ELSE <<>>)
         \o valid_wall_rows(b, tile_type, row_idx + 1)

\* get_valid_rows_for_tile_type without the final push of Floor
get_valid_rows_without_floor(b, tile_type) ==
    valid_wall_rows(b, tile_type, 0)

get_valid_rows_for_tile_type(b, tile_type) ==
    valid_wall_rows(b, tile_type, 0) \o <<Floor>>

\* hold_tiles rejecting every row that already holds a tile
hold_tiles_empty_rows_only(b, tile_type, tile_count, row, penalty) ==
    IF ~ row.wall
    THEN [ok |-> TRUE, board |-> [b EXCEPT !.penalties = @ + tile_count]]
    ELSE IF row.idx \notin DOMAIN b.holds \/ is_some(b.holds[row.idx][0])
    THEN [ok |-> FALSE, board |-> b]
    ELSE [ok |-> TRUE,
          board |-> [b EXCEPT
              !.holds[row.idx] =
                  [c \in Idx |-> IF c < Min(tile_count, row.idx + 1)
                                 THEN tile_type ELSE @[c]],
              !.penalties = @ + saturating_sub(tile_count, row.idx + 1) + penalty]]

\* hold_tiles filling tile_count cells whatever the capacity of the row
hold_tiles_uncapped(b, tile_type, tile_count, row, penalty) ==
    IF ~ row.wall
    THEN [ok |-> TRUE, board |-> [b EXCEPT !.penalties = @ + tile_count]]
    ELSE IF row.idx \notin DOMAIN b.holds
    THEN [ok |-> FALSE, board |-> b]
    ELSE IF is_some(b.holds[row.idx][0]) /\ b.holds[row.idx][0] # tile_type
    THEN [ok |-> FALSE, board |-> b]
    ELSE [ok |-> TRUE,
          board |-> [b EXCEPT
              !.holds[row.idx] =
                  [c \in Idx |-> IF c < tile_count THEN tile_type ELSE @[c]],
              !.penalties = @ + saturating_sub(tile_count, row.idx + 1) + penalty]]

\* Result<(), IllegalMoveError> of hold_tiles together with the board it leaves
hold_tiles(b, tile_type, tile_count, row, penalty) ==
    IF ~ row.wall
    THEN [ok |-> TRUE, board |-> [b EXCEPT !.penalties = @ + tile_count]]
    ELSE LET row_idx == row.idx IN
         IF row_idx \notin DOMAIN b.holds
         THEN [ok |-> FALSE, board |-> b]
         ELSE IF is_some(b.holds[row_idx][0]) /\ b.holds[row_idx][0] # tile_type
         THEN [ok |-> FALSE, board |-> b]
         ELSE LET row_capacity == row_idx + 1
                  n == Min(tile_count, row_capacity)
                  overflow == saturating_sub(tile_count, row_capacity)
              IN  [ok |-> TRUE,
                   board |-> [b EXCEPT
                       !.holds[row_idx] =
                           [c \in Idx |-> IF c < n THEN tile_type ELSE @[c]],
                       !.penalties = @ + overflow + penalty]]

\* Board::count_in_direction looking at the adjacent cell only
count_in_direction_adjacent(placed, row, col, drow, dcol) ==
    LET r == row + drow
        c == col + dcol
    IN  IF r < 0 \/ c < 0 THEN 0
        ELSE IF r \in DOMAIN placed /\ c \in DOMAIN placed[r] /\ is_some(placed[r][c])
             THEN 1
             ELSE 0

\* Board::count_in_direction
RECURSIVE count_in_direction(_, _, _, _, _)
count_in_direction(placed, row, col, drow, dcol) ==
    LET r == row + drow
        c == col + dcol
    IN  IF r < 0 \/ c < 0 THEN 0
        ELSE IF r \in DOMAIN placed /\ c \in DOMAIN placed[r] /\ is_some(placed[r][c])
             THEN 1 + count_in_direction(placed, r, c, drow, dcol)
             ELSE 0

h_line(placed, row_idx, col_idx) ==
    1 + count_in_direction(placed, row_idx, col_idx, 0, 1)
      + count_in_direction(placed, row_idx, col_idx, 0, -1)

v_line(placed, row_idx, col_idx) ==
    1 + count_in_direction(placed, row_idx, col_idx, 1, 0)
      + count_in_direction(placed, row_idx, col_idx, -1, 0)

\* the points place_holds adds for the tile just placed at (row_idx, col_idx)
placement_points(placed, row_idx, col_idx) ==
    LET h == h_line(placed, row_idx, col_idx)
        v == v_line(placed, row_idx, col_idx)
    IN  IF h = 1 /\ v = 1 THEN 1
        ELSE (IF h > 1 THEN h ELSE 0) + (IF v > 1 THEN v ELSE 0)

\* one iteration of the loop of place_holds leaving the placed row staged
place_row_keeping_holds(b, row_idx) ==
    LET row == b.holds[row_idx]
        tiles_in_row == Cardinality({c \in DOMAIN row : is_some(row[c])})
    IN  IF tiles_in_row > row_idx /\ row[0] # None
        THEN LET col_idx == get_tile_place_col(row[0], row_idx)
                 placed == [b.placed EXCEPT ![row_idx][col_idx] = row[0]]
             IN  [panic |-> FALSE,
                  board |-> [b EXCEPT
                      !.placed = placed,
                      !.score = @ + placement_points(placed, row_idx, col_idx)]]
        ELSE [panic |-> tiles_in_row > row_idx, board |-> b]

\* one iteration of the loop of place_holds; panic when row[0].unwrap() fails
place_row(b, row_idx) ==
    LET row == b.holds[row_idx]
        tiles_in_row == Cardinality({c \in DOMAIN row : is_some(row[c])})
    IN  IF tiles_in_row > row_idx
        THEN IF row[0] = None
             THEN [panic |-> TRUE, board |-> b]
             ELSE LET tile_type == row[0]
                      col_idx == get_tile_place_col(tile_type, row_idx)
                      placed == [b.placed EXCEPT ![row_idx][col_idx] = tile_type]
                  IN  [panic |-> FALSE,
                       board |-> [b EXCEPT
                           !.placed = placed,
                           !.score = @ + placement_points(placed, row_idx, col_idx),
                           !.holds[row_idx] = [c \in Idx |-> None]]]
        ELSE [panic |-> FALSE, board |-> b]

\* the loop of place_holds visiting the rows from the last to the first
RECURSIVE place_rows_bottom_up(_, _)
place_rows_bottom_up(b, row_idx) ==
    IF row_idx >= BOARD_DIMENSION THEN [panic |-> FALSE, board |-> b]
    ELSE LET r == place_rows_bottom_up(b, row_idx + 1)
         IN  IF r.panic THEN r ELSE place_row(r.board, row_idx)

RECURSIVE place_rows(_, _)
place_rows(b, row_idx) ==
    IF row_idx >= BOARD_DIMENSION THEN [panic |-> FALSE, board |-> b]
    ELSE LET r == place_row(b, row_idx)
         IN  IF r.panic THEN r ELSE place_rows(r.board, row_idx + 1)

\* the row test of apply_uncollected_bonuses without the test of the flag
row_bonus_due_again(b, i) == \A c \in Idx : is_some(b.placed[i][c])

\* the row test of apply_uncollected_bonuses asking for one filled cell only
row_bonus_due_any(b, i) == ~ b.bonuses.rows[i] /\ \E c \in Idx : is_some(b.placed[i][c])

row_bonus_due(b, i) == ~ b.bonuses.rows[i] /\ \A c \in Idx : is_some(b.placed[i][c])

column_bonus_due(b, i) ==
    ~ b.bonuses.columns[i] /\ \A r \in Idx : get_is_some(b.placed[r], i)

\* the tile type test of apply_uncollected_bonuses asking for one tile only
tile_type_bonus_due_any(b, i) ==
    /\ ~ b.bonuses.tile_types[i]
    /\ Cardinality({rc \in Idx \X Idx : b.placed[rc[1]][rc[2]] = i}) >= 1

tile_type_bonus_due(b, i) ==
    /\ ~ b.bonuses.tile_types[i]
    /\ Cardinality({rc \in Idx \X Idx : b.placed[rc[1]][rc[2]] = i}) = BOARD_DIMENSION

apply_uncollected_bonuses(b) ==
    LET rows == {i \in Idx : row_bonus_due(b, i)}
        columns == {i \in Idx : column_bonus_due(b, i)}
        tile_types == {i \in Idx : tile_type_bonus_due(b, i)}
    IN  [b EXCEPT
            !.score = @ + ROW_BONUS * Cardinality(rows)
                        + COLUMN_BONUS * Cardinality(columns)
                        + TILE_TYPE_BONUS * Cardinality(tile_types),
            !.bonuses = [rows |-> [i \in Idx |-> @.rows[i] \/ i \in rows],
                         columns |-> [i \in Idx |-> @.columns[i] \/ i \in columns],
                         tile_types |-> [i \in Idx |-> @.tile_types[i] \/ i \in tile_types]]]

place_holds(b) ==
    LET r == place_rows(b, 0) IN
    IF r.panic THEN r
    ELSE LET b2 == apply_uncollected_bonuses(r.board)
         IN  [panic |-> FALSE,
              board |-> [b2 EXCEPT
                  !.score = saturating_sub(@, get_penalty_point_value(b2.penalties)),
                  !.penalties = 0]]

count_horizontal_lines(b) ==
    Cardinality({r \in Idx : \A c \in Idx : is_some(b.placed[r][c])})

get_score(b) == b.score


-----------------------------------------------------------------------------
(* bag.rs *)

\* the bag holding cnt[t] items of each type t
BagSize(b) == LET RECURSIVE S(_)
                  S(t) == IF t >= BOARD_DIMENSION THEN 0 ELSE b[t] + S(t + 1)
              IN  S(0)

EmptyBag == [t \in Tiles |-> 0]

\* Bag::new and Bag::restock: the items, shuffled; former items are dropped
restock(items) == items

\* bag.take(n).collect(): the possible results of n pops (fewer when the bag
\* runs out), each as [taken |-> the items popped, rest |-> the bag left]
take(b, n) ==
    LET m == Min(n, BagSize(b))
    IN  {[taken |-> d, rest |-> [t \in Tiles |-> b[t] - d[t]]] :
            d \in {e \in [Tiles -> 0 .. m] :
                      /\ \A t \in Tiles : e[t] <= b[t]
                      /\ BagSize(e) = m}}

-----------------------------------------------------------------------------
(* bowl.rs *)

\* Bowl::fill
fill(tiles) == Sort(tiles)

\* Bowl::extend without the sort
extend_unsorted(bowl, tiles) == bowl \o tiles

\* Bowl::extend dropping the tiles the bowl held
extend_replacing(bowl, tiles) == Sort(tiles)

\* Bowl::extend
extend(bowl, tiles) == Sort(bowl \o tiles)

\* Bowl::take_tiles keeping every tile of the bowl, the taken ones too
take_tiles_keep_all(bowl, tile_type) ==
    [take |-> SelectSeq(bowl, LAMBDA x : x = tile_type),
     keep |-> bowl]

\* Bowl::take_tiles: (take, keep); the bowl itself is left empty
take_tiles(bowl, tile_type) ==
    [take |-> SelectSeq(bowl, LAMBDA x : x = tile_type),
     keep |-> SelectSeq(bowl, LAMBDA x : x # tile_type)]

get_tile_types(bowl) == dedup(bowl)

\* the Vec<Tile> with cnt[t] tiles of each type t, in type order
RECURSIVE TilesFrom(_, _)
TilesFrom(cnt, t) ==
    IF t >= BOARD_DIMENSION THEN <<>>
    ELSE [i \in 1 .. cnt[t] |-> t] \o TilesFrom(cnt, t + 1)


-----------------------------------------------------------------------------
(* gamestate.rs *)

get_bowl_count(players) == players * 2 + 2

\* the default tileset, as the number of tiles of each type
get_default_tileset == [t \in Tiles |-> TILES_PER_TYPE]

\* GameState::new
new(players) ==
    [active_player |-> 0,
     boards |-> [p \in 0 .. (players - 1) |-> DefaultBoard],
     bowls |-> [i \in 0 .. (get_bowl_count(players) - 1) |-> <<>>],
     bag |-> restock(get_default_tileset),
     first_token_owner |-> None]

Move(bowl, tile_type, row) == [bowl |-> bowl, tile_type |-> tile_type, row |-> row]

RECURSIVE Flatten(_)
Flatten(ss) == IF ss = <<>> THEN <<>> ELSE Head(ss) \o Flatten(Tail(ss))

\* the moves the two inner loops of get_valid_moves push for one bowl
moves_of_bowl(board, bowl_idx, bowl) ==
    LET types == get_tile_types(bowl)
    IN  Flatten([k \in 1 .. Len(types) |->
            LET rows == get_valid_rows_for_tile_type(board, types[k])
            IN  [j \in 1 .. Len(rows) |-> Move(bowl_idx, types[k], rows[j])]])

get_valid_moves(gs) ==
    LET board == gs.boards[gs.active_player]
    IN  Flatten([k \in 1 .. Cardinality(DOMAIN gs.bowls) |->
            moves_of_bowl(board, k - 1, gs.bowls[k - 1])])

round_over(gs) == \A i \in DOMAIN gs.bowls : get_tile_types(gs.bowls[i]) = <<>>

is_game_over(gs) == \E p \in DOMAIN gs.boards : count_horizontal_lines(gs.boards[p]) > 0

\* GameState::make_move giving the token and its penalty on every centre draw
make_move_always_first(gs, choice) ==
    IF gs.active_player \notin DOMAIN gs.boards
    THEN [ok |-> FALSE, panic |-> TRUE, gs |-> gs]
    ELSE IF ~ Contains(get_valid_moves(gs), choice)
    THEN [ok |-> FALSE, panic |-> FALSE, gs |-> gs]
    ELSE
    LET tiles == take_tiles(gs.bowls[choice.bowl], choice.tile_type)
        first == choice.bowl = CENTRE_BOWL_IDX
        held == hold_tiles(gs.boards[gs.active_player], choice.tile_type,
                           Len(tiles.take), choice.row, IF first THEN 1 ELSE 0)
    IN  [ok |-> held.ok, panic |-> FALSE,
         gs |-> [gs EXCEPT
             !.boards[gs.active_player] = held.board,
             !.bowls = [[@ EXCEPT ![choice.bowl] = <<>>] EXCEPT
                           ![CENTRE_BOWL_IDX] = extend(@, tiles.keep)],
             !.first_token_owner = IF first THEN gs.active_player ELSE @,
             !.active_player =
                 IF gs.active_player + 1 >= Cardinality(DOMAIN gs.boards)
                 THEN 0 ELSE gs.active_player + 1]]

\* GameState::make_move leaving active_player past the last player
make_move_without_wrap(gs, choice) ==
    IF gs.active_player \notin DOMAIN gs.boards
    THEN [ok |-> FALSE, panic |-> TRUE, gs |-> gs]
    ELSE IF ~ Contains(get_valid_moves(gs), choice)
    THEN [ok |-> FALSE, panic |-> FALSE, gs |-> gs]
    ELSE IF choice.bowl \notin DOMAIN gs.bowls
    THEN [ok |-> FALSE, panic |-> FALSE, gs |-> gs]
    ELSE
    LET tiles == take_tiles(gs.bowls[choice.bowl], choice.tile_type)
        bowls1 == [gs.bowls EXCEPT ![choice.bowl] = <<>>]
        first == choice.bowl = CENTRE_BOWL_IDX /\ gs.first_token_owner = None
        penalty == IF first THEN 1 ELSE 0
        owner == IF first THEN gs.active_player ELSE gs.first_token_owner
        held == hold_tiles(gs.boards[gs.active_player], choice.tile_type,
                           Len(tiles.take), choice.row, penalty)
        gs1 == [gs EXCEPT !.bowls = bowls1, !.first_token_owner = owner]
    IN  IF ~ held.ok
        THEN [ok |-> FALSE, panic |-> FALSE, gs |-> gs1]
        ELSE [ok |-> TRUE, panic |-> FALSE,
              gs |-> [gs1 EXCEPT
                  !.boards[gs.active_player] = held.board,
                  !.bowls[CENTRE_BOWL_IDX] = extend(@, tiles.keep),
                  !.active_player = gs.active_player + 1]]

\* GameState::make_move placing the held tiles of the active board at once
make_move_placing(gs, choice) ==
    IF gs.active_player \notin DOMAIN gs.boards
    THEN [ok |-> FALSE, panic |-> TRUE, gs |-> gs]
    ELSE IF ~ Contains(get_valid_moves(gs), choice)
    THEN [ok |-> FALSE, panic |-> FALSE, gs |-> gs]
    ELSE IF choice.bowl \notin DOMAIN gs.bowls
    THEN [ok |-> FALSE, panic |-> FALSE, gs |-> gs]
    ELSE
    LET tiles == take_tiles(gs.bowls[choice.bowl], choice.tile_type)
        bowls1 == [gs.bowls EXCEPT ![choice.bowl] = <<>>]
        first == choice.bowl = CENTRE_BOWL_IDX /\ gs.first_token_owner = None
        penalty == IF first THEN 1 ELSE 0
        owner == IF first THEN gs.active_player ELSE gs.first_token_owner
        held == hold_tiles(gs.boards[gs.active_player], choice.tile_type,
                           Len(tiles.take), choice.row, penalty)
        gs1 == [gs EXCEPT !.bowls = bowls1, !.first_token_owner = owner]
    IN  IF ~ held.ok
        THEN [ok |-> FALSE, panic |-> FALSE, gs |-> gs1]
        ELSE [ok |-> TRUE, panic |-> FALSE,
              gs |-> [gs1 EXCEPT
                  !.boards[gs.active_player] = place_holds(held.board).board,
                  !.bowls[CENTRE_BOWL_IDX] = extend(@, tiles.keep),
                  !.active_player =
                      IF gs.active_player + 1 >= Cardinality(DOMAIN gs.boards)
                      THEN 0 ELSE gs.active_player + 1]]

\* GameState::make_move: the Result, whether the call panicked, and the state left
make_move(gs, choice) ==
    IF gs.active_player \notin DOMAIN gs.boards
    THEN [ok |-> FALSE, panic |-> TRUE, gs |-> gs]
    ELSE IF ~ Contains(get_valid_moves(gs), choice)
    THEN [ok |-> FALSE, panic |-> FALSE, gs |-> gs]
    ELSE IF choice.bowl \notin DOMAIN gs.bowls
    THEN [ok |-> FALSE, panic |-> FALSE, gs |-> gs]
    ELSE
    LET tiles == take_tiles(gs.bowls[choice.bowl], choice.tile_type)
        bowls1 == [gs.bowls EXCEPT ![choice.bowl] = <<>>]
        first == choice.bowl = CENTRE_BOWL_IDX /\ gs.first_token_owner = None
        penalty == IF first THEN 1 ELSE 0
        owner == IF first THEN gs.active_player ELSE gs.first_token_owner
        held == hold_tiles(gs.boards[gs.active_player], choice.tile_type,
                           Len(tiles.take), choice.row, penalty)
        gs1 == [gs EXCEPT !.bowls = bowls1, !.first_token_owner = owner]
    IN  IF ~ held.ok
        THEN [ok |-> FALSE, panic |-> FALSE, gs |-> gs1]
        ELSE [ok |-> TRUE, panic |-> FALSE,
              gs |-> [gs1 EXCEPT
                  !.boards[gs.active_player] = held.board,
                  !.bowls[CENTRE_BOWL_IDX] = extend(@, tiles.keep),
                  !.active_player =
                      IF gs.active_player + 1 >= Cardinality(DOMAIN gs.boards)
                      THEN 0 ELSE gs.active_player + 1]]

\* Iterator::max_by_key over the elements i.. with the best index so far,
\* given the key of every element: a later element replaces the best one
\* unless its key is smaller
RECURSIVE max_by_key(_, _, _)
max_by_key(keys, i, best) ==
    IF i \notin DOMAIN keys THEN best
    ELSE LET a == keys[best]
             b == keys[i]
             greater == a[1] > b[1] \/ (a[1] = b[1] /\ a[2] > b[2])
         IN  max_by_key(keys, i + 1, IF greater THEN best ELSE i)

\* GameState::get_winner comparing the scores only
get_winner_by_score(gs) ==
    max_by_key([i \in DOMAIN gs.boards |-> <<get_score(gs.boards[i]), 0>>], 1, 0)

\* the key of get_winner
winner_key(b) == <<get_score(b), count_horizontal_lines(b)>>

\* GameState::get_winner (of a game with at least one board)
get_winner(gs) ==
    max_by_key([i \in DOMAIN gs.boards |-> winner_key(gs.boards[i])], 1, 0)

\* the tiles of one type on all boards, holds and placed
used_tiles(bds, t) ==
    LET RECURSIVE U(_)
        U(p) == IF p \notin DOMAIN bds THEN 0
                ELSE CountIn(get_active_tiles(bds[p]), t) + U(p + 1)
    IN  U(0)

\* the loop of setup_next_round without the restock: a bowl gets what the
\* bag still holds
RECURSIVE fill_bowls_without_restock(_, _, _, _)
fill_bowls_without_restock(bds, bls, b, bowl_idx) ==
    IF bowl_idx \notin DOMAIN bls
    THEN {[panic |-> FALSE, bowls |-> bls, bag |-> b]}
    ELSE UNION {
        fill_bowls_without_restock(bds,
            [bls EXCEPT ![bowl_idx] = fill(TilesFrom(d1.taken, 0))],
            d1.rest, bowl_idx + 1) :
        d1 \in take(b, BOWL_CAPACITY)}

\* the loop of setup_next_round over the bowls from bowl_idx on: the set of
\* possible outcomes [panic, bowls, bag].  The subtraction
\* TILES_PER_TYPE - used panics when it goes below zero.
RECURSIVE fill_bowls(_, _, _, _)
fill_bowls(bds, bls, b, bowl_idx) ==
    IF bowl_idx \notin DOMAIN bls
    THEN {[panic |-> FALSE, bowls |-> bls, bag |-> b]}
    ELSE UNION {
        IF BagSize(d1.taken) < BOWL_CAPACITY
        THEN IF \E t \in Tiles : used_tiles(bds, t) > TILES_PER_TYPE
             THEN {[panic |-> TRUE, bowls |-> bls, bag |-> d1.rest]}
             ELSE LET unused_tiles ==
                          [t \in Tiles |-> TILES_PER_TYPE - used_tiles(bds, t)]
                  IN  UNION {
                        fill_bowls(bds,
                            [bls EXCEPT ![bowl_idx] =
                                fill(TilesFrom(d1.taken, 0) \o TilesFrom(d2.taken, 0))],
                            d2.rest, bowl_idx + 1) :
                        d2 \in take(restock(unused_tiles),
                                    BOWL_CAPACITY - BagSize(d1.taken))}
        ELSE fill_bowls(bds,
                 [bls EXCEPT ![bowl_idx] = fill(TilesFrom(d1.taken, 0))],
                 d1.rest, bowl_idx + 1) :
        d1 \in take(b, BOWL_CAPACITY)}

\* GameState::setup_next_round always letting player 0 start the round
setup_next_round_from_player_zero(gs) ==
    LET placed == [p \in DOMAIN gs.boards |-> place_holds(gs.boards[p])]
        bds == [p \in DOMAIN gs.boards |-> placed[p].board]
    IN  IF \E p \in DOMAIN gs.boards : placed[p].panic
        THEN {[panic |-> TRUE, gs |-> gs]}
        ELSE {[panic |-> o.panic,
               gs |-> IF o.panic
                      THEN [gs EXCEPT !.boards = bds, !.bowls = o.bowls, !.bag = o.bag]
                      ELSE [gs EXCEPT
                              !.boards = bds, !.bowls = o.bowls, !.bag = o.bag,
                              !.active_player = 0,
                              !.first_token_owner = None]] :
              o \in fill_bowls(bds, gs.bowls, gs.bag, 1)}

\* GameState::setup_next_round: the set of possible outcomes [panic, gs]
setup_next_round(gs) ==
    LET placed == [p \in DOMAIN gs.boards |-> place_holds(gs.boards[p])]
        bds == [p \in DOMAIN gs.boards |-> placed[p].board]
    IN  IF \E p \in DOMAIN gs.boards : placed[p].panic
        THEN {[panic |-> TRUE, gs |-> gs]}
        ELSE {[panic |-> o.panic,
               gs |-> IF o.panic
                      THEN [gs EXCEPT !.boards = bds, !.bowls = o.bowls, !.bag = o.bag]
                      ELSE [gs EXCEPT
                              !.boards = bds, !.bowls = o.bowls, !.bag = o.bag,
                              !.active_player =
                                  IF gs.first_token_owner = None
                                  THEN 0 ELSE gs.first_token_owner,
                              !.first_token_owner = None]] :
              o \in fill_bowls(bds, gs.bowls, gs.bag, 1)}

-----------------------------------------------------------------------------
(* interface: format.rs and parsing.rs.  A String is a sequence of           *)
(* one-character strings.                                                    *)

Digits == <<"0", "1", "2", "3", "4", "5", "6", "7", "8", "9">>

IsDigit(c) == \E d \in DOMAIN Digits : Digits[d] = c

DigitValue(c) == (CHOOSE d \in DOMAIN Digits : Digits[d] = c) - 1

IsWhitespace(c) == c \in {" ", "\n", "\t", "\r"}

\* usize::to_string
RECURSIVE to_string(_)
to_string(n) ==
    IF n < 10 THEN <<Digits[n + 1]>>
    ELSE to_string(n \div 10) \o <<Digits[(n % 10) + 1]>>

RECURSIVE DecimalValue(_)
DecimalValue(s) ==
    IF s = <<>> THEN 0
    ELSE 10 * DecimalValue(SubSeq(s, 1, Len(s) - 1)) + DigitValue(s[Len(s)])

\* str::parse::<usize>: decimal digits after an optional '+'
parse_usize(s) ==
    LET digits == IF s # <<>> /\ s[1] = "+" THEN Tail(s) ELSE s
    IN  IF digits # <<>> /\ \A i \in DOMAIN digits : IsDigit(digits[i])
        THEN [ok |-> TRUE, value |-> DecimalValue(digits)]
        ELSE [ok |-> FALSE, value |-> 0]

\* str::split with a string pattern
RECURSIVE split_acc(_, _, _)
split_acc(s, pat, acc) ==
    IF s = <<>> THEN <<acc>>
    ELSE IF Len(s) >= Len(pat) /\ SubSeq(s, 1, Len(pat)) = pat
    THEN <<acc>> \o split_acc(SubSeq(s, Len(pat) + 1, Len(s)), pat, <<>>)
    ELSE split_acc(Tail(s), pat, Append(acc, Head(s)))

split(s, pat) == split_acc(s, pat, <<>>)

\* str::split_whitespace
RECURSIVE split_whitespace_acc(_, _)
split_whitespace_acc(s, acc) ==
    IF s = <<>> THEN (IF acc = <<>> THEN <<>> ELSE <<acc>>)
    ELSE IF IsWhitespace(Head(s))
    THEN (IF acc = <<>> THEN <<>> ELSE <<acc>>) \o split_whitespace_acc(Tail(s), <<>>)
    ELSE split_whitespace_acc(Tail(s), Append(acc, Head(s)))

split_whitespace(s) == split_whitespace_acc(s, <<>>)

RECURSIVE trim_start(_)
trim_start(s) ==
    IF s # <<>> /\ IsWhitespace(Head(s)) THEN trim_start(Tail(s)) ELSE s

\* str::trim
trim(s) == Reverse(trim_start(Reverse(trim_start(s))))

\* the run-length text of one placed row from column c on (format.rs:91-105)
RECURSIVE placed_row_fen(_, _, _)
placed_row_fen(row, c, counter) ==
    IF c \notin DOMAIN row
    THEN (IF counter > 0 THEN to_string(counter) ELSE <<>>) \o <<"/">>
    ELSE IF is_some(row[c])
    THEN (IF counter > 0 THEN to_string(counter) ELSE <<>>) \o <<"-">>
         \o placed_row_fen(row, c + 1, 0)
    ELSE placed_row_fen(row, c + 1, counter + 1)

\* the text of one staging row (format.rs:113-120)
hold_row_fen(row) ==
    LET tiles == SelectSeq([k \in 1 .. BOARD_DIMENSION |-> row[k - 1]], is_some)
    IN  IF tiles # <<>>
        THEN to_string(tiles[1]) \o to_string(1 + Len(Tail(tiles)))
        ELSE <<"0", "0">>

bits_fen(flags) ==
    Flatten([k \in 1 .. BOARD_DIMENSION |-> to_string(IF flags[k - 1] THEN 1 ELSE 0)])

\* Board::fmt_uci_like
board_fmt_uci_like(b) ==
    LET placed == Flatten([k \in 1 .. BOARD_DIMENSION |->
                              placed_row_fen(b.placed[k - 1], 0, 0)])
    IN  SubSeq(placed, 1, Len(placed) - 1)
        \o <<" ">> \o Flatten([k \in 1 .. BOARD_DIMENSION |-> hold_row_fen(b.holds[k - 1])])
        \o <<" ">> \o bits_fen(b.bonuses.rows)
        \o <<" ">> \o bits_fen(b.bonuses.columns)
        \o <<" ">> \o bits_fen(b.bonuses.tile_types)
        \o <<" ">> \o to_string(b.score)
        \o <<" ">> \o to_string(b.penalties)
        \o <<" ", ";">>

\* Bowl::fmt_uci_like
bowl_fmt_uci_like(bowl) ==
    IF bowl = <<>> THEN <<"-">>
    ELSE Flatten([k \in 1 .. Len(bowl) |-> to_string(bowl[k])])

\* Bag::fmt_uci_like of the items in the order `items`
bag_fmt_uci_like(items) == Flatten([k \in 1 .. Len(items) |-> to_string(items[k])])

\* GameState::to_azul_fen when the bag holds its items in the order `items`
to_azul_fen_with(gs, items) ==
    Flatten([k \in 1 .. Cardinality(DOMAIN gs.boards) |->
                board_fmt_uci_like(gs.boards[k - 1]) \o <<" ">>])
    \o <<"|", " ">>
    \o Flatten([k \in 1 .. Cardinality(DOMAIN gs.bowls) |->
                bowl_fmt_uci_like(gs.bowls[k - 1]) \o <<" ">>])
    \o <<"|", " ">>
    \o bag_fmt_uci_like(items)
    \o <<" ", "|", " ">>
    \o to_string(gs.active_player)
    \o <<" ">>
    \o (IF gs.first_token_owner # None
        THEN to_string(gs.first_token_owner) ELSE <<"-">>)
    \o <<"\n">>

\* the orders the items of the bag may be in
bag_items(gs) == Shuffles(gs.bag)

\* GameState::to_azul_fen: the possible texts, one for each order of the bag
to_azul_fen(gs) == {to_azul_fen_with(gs, items) : items \in bag_items(gs)}

\* the placed loop of Board::from_azul_fen (parsing.rs:54-65); indexing
\* placed[y][x] out of range panics
RECURSIVE parse_placed(_, _, _, _)
parse_placed(chars, x, y, placed) ==
    IF chars = <<>> THEN [panic |-> FALSE, placed |-> placed]
    ELSE LET p == Head(chars)
             filled == ~ IsDigit(p) /\ p = "-"
             x1 == IF IsDigit(p) THEN x + DigitValue(p)
                   ELSE IF filled THEN x + 1 ELSE x
         IN  IF filled /\ (y \notin Idx \/ x \notin Idx)
             THEN [panic |-> TRUE, placed |-> placed]
             ELSE parse_placed(Tail(chars),
                      IF x1 >= BOARD_DIMENSION THEN 0 ELSE x1,
                      IF x1 >= BOARD_DIMENSION THEN y + 1 ELSE y,
                      IF filled
                      THEN [placed EXCEPT ![y][x] = get_tile_type_at_pos(y, x)]
                      ELSE placed)

\* the held loop of Board::from_azul_fen (parsing.rs:70-85) from chunk i on
RECURSIVE parse_held(_, _, _)
parse_held(chars, i, holds) ==
    IF chars = <<>> THEN [ok |-> TRUE, panic |-> FALSE, holds |-> holds]
    ELSE IF ~ IsDigit(chars[1])
    THEN [ok |-> FALSE, panic |-> FALSE, holds |-> holds]
    ELSE IF Len(chars) < 2
    THEN [ok |-> FALSE, panic |-> TRUE, holds |-> holds]
    ELSE IF ~ IsDigit(chars[2])
    THEN [ok |-> FALSE, panic |-> FALSE, holds |-> holds]
    ELSE LET tile_type == DigitValue(chars[1])
             tile_count == DigitValue(chars[2])
         IN  IF tile_count = 0
             THEN parse_held(SubSeq(chars, 3, Len(chars)), i + 1, holds)
             ELSE IF i \notin Idx \/ tile_count > BOARD_DIMENSION
             THEN [ok |-> FALSE, panic |-> TRUE, holds |-> holds]
             ELSE parse_held(SubSeq(chars, 3, Len(chars)), i + 1,
                      [holds EXCEPT ![i] =
                          [n \in Idx |-> IF n < tile_count THEN tile_type ELSE @[n]]])

\* chars().map(|c| c == '1').collect::<Vec<_>>().try_into(): [bool; D]
parse_bits(s) ==
    IF Len(s) = BOARD_DIMENSION
    THEN [ok |-> TRUE, flags |-> [i \in Idx |-> s[i + 1] = "1"]]
    ELSE [ok |-> FALSE, flags |-> [i \in Idx |-> FALSE]]

\* Board::from_azul_fen
board_from_azul_fen(board_fen) ==
    LET parts == split_whitespace(board_fen)
        fail == [ok |-> FALSE, panic |-> FALSE, board |-> DefaultBoard]
        abort == [ok |-> FALSE, panic |-> TRUE, board |-> DefaultBoard]
    IN  IF Len(parts) # 7 THEN fail
        ELSE LET placed == parse_placed(parts[1], 0, 0, EmptyGrid)
                 held == parse_held(parts[2], 0, EmptyGrid)
                 rows == parse_bits(parts[3])
                 columns == parse_bits(parts[4])
                 tile_types == parse_bits(parts[5])
                 score == parse_usize(parts[6])
                 penalties == parse_usize(parts[7])
             IN  IF placed.panic THEN abort
                 ELSE IF held.panic THEN abort
                 ELSE IF ~ held.ok THEN fail
                 ELSE IF ~ rows.ok \/ ~ columns.ok \/ ~ tile_types.ok THEN fail
                 ELSE IF ~ score.ok \/ ~ penalties.ok THEN fail
                 ELSE [ok |-> TRUE, panic |-> FALSE,
                       board |-> [holds |-> held.holds, placed |-> placed.placed,
                                  bonuses |-> [rows |-> rows.flags,
                                               columns |-> columns.flags,
                                               tile_types |-> tile_types.flags],
                                  penalties |-> penalties.value,
                                  score |-> score.value]]

\* chars().map(|c| c.to_string().parse::<Tile>()).collect::<Result<Vec<_>, _>>()
parse_tiles(s) ==
    IF \A i \in DOMAIN s : IsDigit(s[i])
    THEN [ok |-> TRUE, tiles |-> [i \in 1 .. Len(s) |-> DigitValue(s[i])]]
    ELSE [ok |-> FALSE, tiles |-> <<>>]

\* Bowl::from_tiles
from_tiles(tiles) == tiles

\* Bowl::from_azul_fen
bowl_from_azul_fen(bowl_fen) ==
    IF bowl_fen = <<>> THEN [ok |-> FALSE, bowl |-> <<>>]
    ELSE IF bowl_fen[1] = "-" THEN [ok |-> TRUE, bowl |-> <<>>]
    ELSE LET t == parse_tiles(bowl_fen)
         IN  [ok |-> t.ok, bowl |-> from_tiles(t.tiles)]

\* Bag::new(items): the number of items of each type
bag_new(items) == [t \in Tiles \cup {items[i] : i \in DOMAIN items} |-> CountIn(items, t)]

\* GameState::from_azul_fen: the Result, whether the call panicked, the state
from_azul_fen(azul_fen) ==
    LET sections == split(azul_fen, <<"|", " ">>)
        fail == [ok |-> FALSE, panic |-> FALSE, gs |-> new(0)]
        abort == [ok |-> FALSE, panic |-> TRUE, gs |-> new(0)]
        all_fens == split(trim(sections[1]), <<";">>)
        board_fens == [k \in 1 .. (Len(all_fens) - 1) |-> trim(all_fens[k])]
        bds == [k \in 1 .. Len(board_fens) |-> board_from_azul_fen(board_fens[k])]
        \* collect() stops at the first board that fails or panics
        first_bad == {k \in 1 .. Len(bds) :
                        /\ ~ bds[k].ok
                        /\ \A j \in 1 .. (k - 1) : bds[j].ok}
    IN  IF \E k \in first_bad : bds[k].panic THEN abort
        ELSE IF first_bad # {} THEN fail
        ELSE IF Len(sections) < 2 THEN fail
        ELSE LET bowl_fens == split_whitespace(trim(sections[2]))
                 bls == [k \in 1 .. Len(bowl_fens) |-> bowl_from_azul_fen(bowl_fens[k])]
             IN  IF \E k \in DOMAIN bls : ~ bls[k].ok THEN fail
                 ELSE IF Len(sections) < 3 THEN fail
                 ELSE LET items == parse_tiles(sections[3])
                      IN  IF ~ items.ok THEN fail
                          ELSE IF Len(sections) < 4 THEN fail
                          ELSE LET trailer == split_whitespace(sections[4])
                               IN  IF Len(trailer) # 2 THEN fail
                                   ELSE IF ~ parse_usize(trailer[1]).ok THEN fail
                                   ELSE [ok |-> TRUE, panic |-> FALSE,
                                         gs |-> [active_player |-> parse_usize(trailer[1]).value,
                                                 boards |-> [p \in 0 .. (Len(bds) - 1) |-> bds[p + 1].board],
                                                 bowls |-> [i \in 0 .. (Len(bls) - 1) |-> bls[i + 1].bowl],
                                                 bag |-> bag_new(items.tiles),
                                                 first_token_owner |->
                                                     IF parse_usize(trailer[2]).ok
                                                     THEN parse_usize(trailer[2]).value
                                                     ELSE None]]

-----------------------------------------------------------------------------
(* The engine driven by a caller *)

\* the GameState value held in the variables
State ==
    [active_player |-> active_player, boards |-> boards, bowls |-> bowls,
     bag |-> bag, first_token_owner |-> first_token_owner]

\* the variables take the GameState value gs
Becomes(gs) ==
    /\ active_player' = gs.active_player
    /\ boards' = gs.boards
    /\ bowls' = gs.bowls
    /\ bag' = gs.bag
    /\ first_token_owner' = gs.first_token_owner

NoMove == Move(0, 0, Floor)

\* the moves a caller may submit: every well-formed move and, for each
\* component, one value out of range
MoveInputs ==
    {Move(b, t, r) :
        b \in 0 .. get_bowl_count(NumPlayers),
        t \in 0 .. BOARD_DIMENSION,
        r \in {Floor} \cup {Wall(i) : i \in 0 .. BOARD_DIMENSION}}

\* the variables hold the GameState value gs
Holds(gs) ==
    /\ active_player = gs.active_player
    /\ boards = gs.boards
    /\ bowls = gs.bowls
    /\ bag = gs.bag
    /\ first_token_owner = gs.first_token_owner

Init ==
    /\ Holds(new(NumPlayers))
    /\ panicked = FALSE
    /\ rounds = 0
    /\ moves = 0
    /\ last = [op |-> "new", ok |-> TRUE, choice |-> NoMove]


\* the caller submits a move
MakeMove ==
    /\ ~ panicked
    /\ moves < MaxMoves
    /\ \E choice \in MoveInputs :
          LET r == make_move(State, choice)
          IN  /\ Becomes(r.gs)
              /\ moves' = IF r.ok THEN moves + 1 ELSE moves
              /\ panicked' = r.panic
              /\ last' = [op |-> "make_move", ok |-> r.ok,
                          choice |-> IF r.ok THEN choice ELSE NoMove]
    /\ UNCHANGED rounds

\* the caller starts the next round, which it does after GameState::new and
\* whenever round_over() holds after a move
SetupNextRound ==
    /\ ~ panicked
    /\ rounds < MaxRounds
    /\ round_over(State)
    /\ \E o \in setup_next_round(State) :
          /\ Becomes(o.gs)
          /\ panicked' = o.panic
          /\ last' = [op |-> "setup_next_round", ok |-> ~ o.panic, choice |-> NoMove]
    /\ rounds' = rounds + 1
    /\ UNCHANGED moves

Next == MakeMove \/ SetupNextRound

Spec == Init /\ [][Next]_vars


-----------------------------------------------------------------------------
(* Legal moves and their submission *)

\* the elements of a sequence
Range(s) == {s[i] : i \in DOMAIN s}

NoDuplicates(s) == \A i, j \in DOMAIN s : i # j => s[i] # s[j]

\* C1: make_move returns Ok exactly for the moves get_valid_moves lists in the
\* current state and IllegalMove for every other move; in particular hold_tiles
\* never rejects a listed move.
C1_AcceptedIffLegal ==
    ~ panicked =>
        \A c \in MoveInputs :
            make_move(State, c).ok <=> c \in Range(get_valid_moves(State))

\* a well-formed move taking a tile type that is in the bowl to a wall row
\* that get_valid_moves does not list
BlockedMove(c) ==
    /\ c.bowl \in DOMAIN bowls
    /\ Contains(bowls[c.bowl], c.tile_type)
    /\ c.row.wall
    /\ c.row.idx \in Idx
    /\ c \notin Range(get_valid_moves(State))

\* C1 witness: a move onto a wall row was accepted, and in the state it left a
\* move onto a blocked wall row is on offer
C1_Witness ==
    /\ last.op = "make_move" /\ last.ok /\ last.choice.row.wall
    /\ \E c \in MoveInputs : BlockedMove(c)

\* C2: a move that make_move rejects leaves the bowls, the boards, the bag,
\* active_player and first_token_owner as they were.
C2_RejectedLeavesState ==
    ~ panicked =>
        \A c \in MoveInputs :
            ~ make_move(State, c).ok => make_move(State, c).gs = State

\* C2 witness: a move was rejected in a state where a blocked wall row move
\* is among the rejected ones and the centre has tiles
C2_Witness ==
    /\ last.op = "make_move" /\ ~ last.ok
    /\ bowls[CENTRE_BOWL_IDX] # <<>>
    /\ first_token_owner = None
    /\ \E c \in MoveInputs : BlockedMove(c) /\ c.bowl = CENTRE_BOWL_IDX

\* C3: get_valid_moves is empty exactly when every bowl is empty, which is
\* exactly when round_over() holds.
C3_NoMovesIffRoundOver ==
    ~ panicked =>
        /\ (get_valid_moves(State) = <<>>) <=> (\A i \in DOMAIN bowls : bowls[i] = <<>>)
        /\ (get_valid_moves(State) = <<>>) <=> round_over(State)

\* C3 witness: an accepted move has emptied the last bowl
C3_Witness ==
    /\ last.op = "make_move" /\ last.ok
    /\ round_over(State)
    /\ get_valid_moves(State) = <<>>

\* the moves the specification of legal_moves describes
ExpectedMoves ==
    {m \in [bowl : DOMAIN bowls, tile_type : Tiles,
            row : {Floor} \cup {Wall(i) : i \in Idx}] :
        /\ CountIn(bowls[m.bowl], m.tile_type) >= 1
        /\ m.row \in Range(get_valid_rows_for_tile_type(boards[active_player],
                                                       m.tile_type))}

\* C4: get_valid_moves lists exactly the moves (b, t, r) with a tile of type t
\* in bowl b and r a valid row of the active board for t, each of them once.
C4_ValidMovesExact ==
    ~ panicked =>
        /\ Range(get_valid_moves(State)) = ExpectedMoves
        /\ NoDuplicates(get_valid_moves(State))

\* C4 witness: the centre, filled by two moves, holds two tile types, and a
\* regular bowl is on offer too
C4_Witness ==
    /\ Len(get_tile_types(bowls[CENTRE_BOWL_IDX])) >= 2
    /\ \E i \in DOMAIN bowls : i # CENTRE_BOWL_IDX /\ bowls[i] # <<>>

\* the wall rows the specification of legal_rows_for allows for type t
ExpectedWallRows(b, t) ==
    {Wall(i) : i \in {j \in Idx :
        /\ \A c \in Idx : b.holds[j][c] \in {None, t}
        /\ b.placed[j][(t + j) % BOARD_DIMENSION] = None}}

-----------------------------------------------------------------------------
(* The AzulFEN codec *)

\* the scores of the boards of a state
Scores(gs) == [p \in DOMAIN gs.boards |-> get_score(gs.boards[p])]

\* C6: decoding the AzulFEN text of a reachable state succeeds and yields a
\* state with the same valid moves, the same scores and the same AzulFEN text.
C6_RoundTrip ==
    ~ panicked =>
        \A fen \in to_azul_fen(State) :
            LET r == from_azul_fen(fen)
            IN  /\ r.ok
                /\ get_valid_moves(r.gs) = get_valid_moves(State)
                /\ Scores(r.gs) = Scores(State)
                /\ fen \in to_azul_fen(r.gs)


-----------------------------------------------------------------------------
(* Conservation of tiles *)

\* the tiles of type t in all bowls
bowl_tiles(bls, t) ==
    LET RECURSIVE B(_)
        B(i) == IF i \notin DOMAIN bls THEN 0 ELSE CountIn(bls[i], t) + B(i + 1)
    IN  B(0)

\* the tiles of type t in a bag, the bowls and the boards' holds and placed
TileCountIn(bg, bls, bds, t) == bg[t] + bowl_tiles(bls, t) + used_tiles(bds, t)

TileCount(t) == TileCountIn(bag, bowls, boards, t)

TakenBy(c) == CountIn(bowls[c.bowl], c.tile_type)

\* the default tileset fills the bowls of the first round without a restock
FirstRoundSupplied ==
    BagSize(get_default_tileset) >= BOWL_CAPACITY * (get_bowl_count(NumPlayers) - 1)

C8_ConservationWithDiscards ==
    ~ panicked =>
        \A t \in Tiles :
            \E discarded \in 0 .. TILES_PER_TYPE :
                TileCount(t) + discarded = TILES_PER_TYPE


-----------------------------------------------------------------------------
(* Scoring of a placement *)

\* the dimension of the grid on which placements are scored
ScoreDim == 3

ScoreIdx == 0 .. (ScoreDim - 1)

\* Board::default().placed at dimension ScoreDim
ScoreGrid == [r \in ScoreIdx |-> [c \in ScoreIdx |-> None]]

\* a board with an empty grid; `last` holds the grid, the cell placed last and
\* the points that placement scored
InitScore ==
    /\ Holds(new(NumPlayers))
    /\ panicked = FALSE
    /\ rounds = 0
    /\ moves = 0
    /\ last = [op |-> "new", ok |-> TRUE, choice |-> NoMove,
               placed |-> ScoreGrid, row |-> 0, col |-> 0, points |-> 0]

\* place_holds places the tile of a full staging row at an empty cell of the
\* grid and scores it
PlaceTile ==
    /\ \E row_idx \in ScoreIdx : \E col_idx \in ScoreIdx :
          /\ last.placed[row_idx][col_idx] = None
          /\ LET tile_type == (col_idx + ScoreDim - row_idx) % ScoreDim
                 placed == [last.placed EXCEPT ![row_idx][col_idx] = tile_type]
             IN  last' = [op |-> "place_holds", ok |-> TRUE, choice |-> NoMove,
                          placed |-> placed, row |-> row_idx, col |-> col_idx,
                          points |-> placement_points(placed, row_idx, col_idx)]
    /\ UNCHANGED <<active_player, boards, bowls, bag, first_token_owner,
                   panicked, rounds, moves>>

NextScore == PlaceTile

SpecScore == InitScore /\ [][NextScore]_vars

\* the length of the run of filled cells of row r through column c
HRun(placed, r, c) ==
    Cardinality({k \in DOMAIN placed[r] :
        \A j \in Min(k, c) .. Max(k, c) : placed[r][j] # None})

\* the length of the run of filled cells of column c through row r
VRun(placed, r, c) ==
    Cardinality({k \in DOMAIN placed :
        \A j \in Min(k, r) .. Max(k, r) : placed[j][c] # None})

\* the filled cells of a grid
Filled(placed) ==
    {rc \in (DOMAIN placed) \X (DOMAIN placed) : placed[rc[1]][rc[2]] # None}

\* C9: the points of a placement at (r, c) are 1 when its horizontal run h and
\* its vertical run v are both 1, and otherwise h if h > 1 plus v if v > 1; a
\* single tile on an empty grid scores 1 and a tile completing a horizontal
\* run of 3 with no vertical neighbour scores 3.
C9_PlacementScore ==
    last.op = "place_holds" =>
        LET h == HRun(last.placed, last.row, last.col)
            v == VRun(last.placed, last.row, last.col)
        IN  /\ last.points = IF h = 1 /\ v = 1 THEN 1
                             ELSE (IF h > 1 THEN h ELSE 0) + (IF v > 1 THEN v ELSE 0)
            /\ Cardinality(Filled(last.placed)) = 1 => last.points = 1
            /\ h = 3 /\ v = 1 => last.points = 3

\* C9 witness: the tile placed last is the first of its row, completes a
\* horizontal run of 3, has no vertical neighbour, and scored 3
C9_Witness ==
    /\ last.op = "place_holds"
    /\ last.col = 0
    /\ HRun(last.placed, last.row, last.col) = 3
    /\ VRun(last.placed, last.row, last.col) = 1
    /\ last.points = 3


-----------------------------------------------------------------------------
(* Bonuses *)

\* C10: a board has the bonus of column c marked as claimed only when every
\* cell of column c of its grid is filled.
C10_ColumnBonusOnlyWhenFull ==
    \A p \in DOMAIN boards : \A c \in Idx :
        boards[p].bonuses.columns[c] =>
            \A r \in Idx : is_some(boards[p].placed[r][c])


-----------------------------------------------------------------------------
(* One board driven through hold_tiles and place_holds *)

\* the largest number of tiles of one type a move stages at once
MaxTake == 2

\* the largest number of penalty tiles a board collects in one round
MaxPenalties == 10

\* `last` holds the call made last, the board it was made on, that board
\* before the call, and the arguments of hold_tiles
InitBoard ==
    /\ Holds(new(NumPlayers))
    /\ panicked = FALSE
    /\ rounds = 0
    /\ moves = 0
    /\ last = [op |-> "new", ok |-> TRUE, choice |-> NoMove, player |-> 0,
               before |-> DefaultBoard, tile_type |-> 0, tile_count |-> 0,
               row |-> Floor, penalty |-> 0]

\* make_move stages tiles on the active board: the row is one of
\* get_valid_rows_for_tile_type (gamestate.rs:131-134), the penalty is 0 or 1
HoldTiles ==
    /\ ~ panicked
    /\ \E p \in DOMAIN boards : \E tile_type \in Tiles : \E tile_count \in 1 .. MaxTake :
       \E penalty \in {0, 1} :
       \E row \in Range(get_valid_rows_for_tile_type(boards[p], tile_type)) :
          /\ boards[p].penalties + tile_count + penalty <= MaxPenalties
          /\ LET h == hold_tiles(boards[p], tile_type, tile_count, row, penalty)
             IN  /\ boards' = [boards EXCEPT ![p] = h.board]
                 /\ last' = [op |-> "hold_tiles", ok |-> h.ok, choice |-> NoMove,
                             player |-> p, before |-> boards[p],
                             tile_type |-> tile_type, tile_count |-> tile_count,
                             row |-> row, penalty |-> penalty]
    /\ UNCHANGED <<active_player, bowls, bag, first_token_owner, panicked,
                   rounds, moves>>

\* setup_next_round resolves a board
PlaceHolds ==
    /\ ~ panicked
    /\ \E p \in DOMAIN boards :
          LET r == place_holds(boards[p])
          IN  /\ boards' = [boards EXCEPT ![p] = r.board]
              /\ panicked' = r.panic
              /\ last' = [op |-> "place_holds", ok |-> ~ r.panic, choice |-> NoMove,
                          player |-> p, before |-> boards[p],
                          tile_type |-> 0, tile_count |-> 0,
                          row |-> Floor, penalty |-> 0]
    /\ UNCHANGED <<active_player, bowls, bag, first_token_owner, rounds, moves>>

NextBoard == HoldTiles \/ PlaceHolds

SpecBoard == InitBoard /\ [][NextBoard]_vars

\* the board the last call was made on, as it is now
After == boards[last.player]

\* every cell of row r of a grid is filled
RowFull(placed, r) == \A c \in Idx : placed[r][c] # None

\* the points apply_uncollected_bonuses added in the place_holds call made last
BonusPoints ==
    LET mid == place_rows(last.before, 0).board
    IN  apply_uncollected_bonuses(mid).score - mid.score

\* the entries of a bonus array that the place_holds call made last has set
Flipped(kind) == {i \in Idx : After.bonuses[kind][i] /\ ~ last.before.bonuses[kind][i]}

\* C11: place_holds marks the bonus of row r claimed exactly when the row is
\* full and its bonus was not claimed before, adding ROW_BONUS points for it;
\* the bonus of a row with an empty cell is never claimed.
C11_RowBonus ==
    last.op = "place_holds" /\ ~ panicked =>
        LET due == {r \in Idx : RowFull(After.placed, r) /\ ~ last.before.bonuses.rows[r]}
        IN  /\ Flipped("rows") = due
            /\ \A r \in Idx : ~ RowFull(After.placed, r) => ~ After.bonuses.rows[r]
            /\ BonusPoints = ROW_BONUS * Cardinality(due)
                             + COLUMN_BONUS * Cardinality(Flipped("columns"))
                             + TILE_TYPE_BONUS * Cardinality(Flipped("tile_types"))

\* C11 witness: place_holds has completed a row and claimed its bonus while
\* another row has a tile and an empty cell and no bonus
C11_Witness ==
    /\ last.op = "place_holds"
    /\ \E r, q \in Idx :
          /\ ~ RowFull(last.before.placed, r) /\ RowFull(After.placed, r)
          /\ After.bonuses.rows[r]
          /\ ~ RowFull(After.placed, q) /\ ~ After.bonuses.rows[q]
          /\ \E c \in Idx : After.placed[q][c] # None

\* the grid holds a tile of type t in every row
TypeComplete(placed, t) == \A r \in Idx : \E c \in Idx : placed[r][c] = t

\* the number of tiles of type t on a grid
TypeCount(placed, t) ==
    LET RECURSIVE N(_)
        N(r) == IF r \notin DOMAIN placed THEN 0
                ELSE Cardinality({c \in DOMAIN placed[r] : placed[r][c] = t}) + N(r + 1)
    IN  N(0)

\* C12: place_holds marks the bonus of tile type t claimed exactly when the
\* grid holds BOARD_DIMENSION tiles of type t, one in every row, and the bonus
\* was not claimed before, adding TILE_TYPE_BONUS points for it.
C12_TileTypeBonus ==
    last.op = "place_holds" /\ ~ panicked =>
        LET due == {t \in Tiles : /\ TypeCount(After.placed, t) = BOARD_DIMENSION
                                  /\ ~ last.before.bonuses.tile_types[t]}
        IN  /\ Flipped("tile_types") = due
            /\ \A t \in Tiles :
                   TypeCount(After.placed, t) = BOARD_DIMENSION
                       <=> TypeComplete(After.placed, t)
            /\ \A t \in Tiles :
                   ~ TypeComplete(After.placed, t) => ~ After.bonuses.tile_types[t]
            /\ BonusPoints = ROW_BONUS * Cardinality(Flipped("rows"))
                             + COLUMN_BONUS * Cardinality(Flipped("columns"))
                             + TILE_TYPE_BONUS * Cardinality(due)

\* C12 witness: place_holds has placed the last tile of one type and claimed
\* its bonus while another type has a tile on the grid and no bonus
C12_Witness ==
    /\ last.op = "place_holds"
    /\ \E t, u \in Tiles :
          /\ ~ TypeComplete(last.before.placed, t) /\ TypeComplete(After.placed, t)
          /\ After.bonuses.tile_types[t]
          /\ TypeCount(After.placed, u) >= 1
          /\ ~ TypeComplete(After.placed, u) /\ ~ After.bonuses.tile_types[u]

BonusKinds == {"rows", "columns", "tile_types"}

\* the points of the bonus flags of board p that a step sets
PointsOfFlags(p) ==
    LET set(kind) == {i \in Idx : boards'[p].bonuses[kind][i] /\ ~ boards[p].bonuses[kind][i]}
    IN  ROW_BONUS * Cardinality(set("rows"))
        + COLUMN_BONUS * Cardinality(set("columns"))
        + TILE_TYPE_BONUS * Cardinality(set("tile_types"))

\* C13: no step clears a bonus flag, and a place_holds call adds bonus points
\* for exactly the flags it sets; a flag is set at most once, so the points of
\* a bonus are added at most once, also when place_holds runs again after
\* further placements.
C13_BonusOnce ==
    [][/\ \A p \in DOMAIN boards : \A kind \in BonusKinds : \A i \in Idx :
              boards[p].bonuses[kind][i] => boards'[p].bonuses[kind][i]
       /\ last'.op = "place_holds" /\ ~ panicked' =>
              LET mid == place_rows(boards[last'.player], 0).board
              IN  apply_uncollected_bonuses(mid).score - mid.score
                      = PointsOfFlags(last'.player)]_vars

\* C13 witness: place_holds has placed a tile on a board that had a row bonus
\* claimed, and the bonus is still claimed
C13_Witness ==
    /\ last.op = "place_holds"
    /\ After.placed # last.before.placed
    /\ \E r \in Idx : last.before.bonuses.rows[r] /\ After.bonuses.rows[r]

\* the points that p penalty tiles cost: the running sums of 1, 1, 2, 2, 2, 3, 3
PenaltyCost(p) == <<0, 1, 2, 4, 6, 8, 11, 14>>[Min(p, 7) + 1]

\* the score of the board of the place_holds call made last after its
\* placements and bonuses, before the penalties
GrossScore == apply_uncollected_bonuses(place_rows(last.before, 0).board).score

\* C14: place_holds lowers the score by the sum of the first min(p, 7) entries
\* of the penalty table for p penalty tiles, stopping at 0, and leaves the
\* penalty counter at 0; 3 tiles cost 4 and 10 tiles cost 14.
C14_PenaltyConversion ==
    /\ get_penalty_point_value(3) = 4
    /\ get_penalty_point_value(10) = 14
    /\ \A p \in DOMAIN boards : boards[p].score >= 0
    /\ last.op = "place_holds" /\ ~ panicked =>
           LET cost == PenaltyCost(last.before.penalties)
           IN  /\ After.score = IF GrossScore >= cost THEN GrossScore - cost ELSE 0
               /\ After.penalties = 0

\* C14 witness: place_holds has resolved a board with 10 penalty tiles whose
\* score stayed above 0
C14_Witness ==
    /\ last.op = "place_holds"
    /\ last.before.penalties = 10
    /\ After.score > 0
    /\ After.score = GrossScore - 14
    /\ After.penalties = 0

\* C15: every filled cell (r, c) of every grid holds tile type
\* (c + BOARD_DIMENSION - r) mod BOARD_DIMENSION, so a tile of type t in row r
\* is at column (t + r) mod BOARD_DIMENSION only, and no row holds a type twice.
C15_PlacementGeometry ==
    \A p \in DOMAIN boards : \A r \in Idx :
        /\ \A c \in Idx :
               boards[p].placed[r][c] # None =>
                   /\ boards[p].placed[r][c] = (c + BOARD_DIMENSION - r) % BOARD_DIMENSION
                   /\ c = (boards[p].placed[r][c] + r) % BOARD_DIMENSION
        /\ \A c, d \in Idx :
               /\ boards[p].placed[r][c] # None
               /\ boards[p].placed[r][c] = boards[p].placed[r][d]
               => c = d

\* C15 witness: place_holds has placed a tile in a row below the first one
\* that already held a tile of another type
C15_Witness ==
    /\ last.op = "place_holds"
    /\ \E r \in Idx \ {0} : \E c, d \in Idx :
          /\ c # d
          /\ last.before.placed[r][c] # None
          /\ last.before.placed[r][d] = None
          /\ After.placed[r][d] # None


-----------------------------------------------------------------------------
(* A game of two players *)

\* the argument of GameState::new
TwoPlayers == 2

\* number of setup_next_round calls explored in a game of two
MaxRoundsTwo == 1

\* number of accepted moves explored in a game of two
MaxMovesTwo == 2

\* the moves a caller may submit in a game of two: every well-formed move
\* and, for each component, one value out of range
MoveInputsTwo ==
    {Move(b, t, r) :
        b \in 0 .. get_bowl_count(TwoPlayers),
        t \in 0 .. BOARD_DIMENSION,
        r \in {Floor} \cup {Wall(i) : i \in 0 .. BOARD_DIMENSION}}

InitTwo ==
    /\ Holds(new(TwoPlayers))
    /\ panicked = FALSE
    /\ rounds = 0
    /\ moves = 0
    /\ last = [op |-> "new", ok |-> TRUE, choice |-> NoMove]

\* the caller submits a move
MakeMoveTwo ==
    /\ ~ panicked
    /\ moves < MaxMovesTwo
    /\ \E choice \in MoveInputsTwo :
          LET r == make_move(State, choice)
          IN  /\ Becomes(r.gs)
              /\ moves' = IF r.ok THEN moves + 1 ELSE moves
              /\ panicked' = r.panic
              /\ last' = [op |-> "make_move", ok |-> r.ok,
                          choice |-> IF r.ok THEN choice ELSE NoMove]
    /\ UNCHANGED rounds

\* the caller starts the next round
SetupNextRoundTwo ==
    /\ ~ panicked
    /\ rounds < MaxRoundsTwo
    /\ round_over(State)
    /\ \E o \in setup_next_round(State) :
          /\ Becomes(o.gs)
          /\ panicked' = o.panic
          /\ last' = [op |-> "setup_next_round", ok |-> ~ o.panic, choice |-> NoMove]
    /\ rounds' = rounds + 1
    /\ UNCHANGED moves

NextTwo == MakeMoveTwo \/ SetupNextRoundTwo

SpecTwo == InitTwo /\ [][NextTwo]_vars

\* the tiles held in staging row i of a board
HeldIn(b, i) == Cardinality({c \in Idx : b.holds[i][c] # None})

\* the move c, accepted in gs by the active player and leaving gs2, conjures
\* no penalty tile: the penalty tiles it adds and the tiles it adds to the
\* named row are no more than the tiles it takes, and a move to the floor
\* adds exactly the tiles it takes
NoExtraPenalty(gs, c, gs2) ==
    LET p == gs.active_player
        taken == CountIn(gs.bowls[c.bowl], c.tile_type)
        grown == gs2.boards[p].penalties - gs.boards[p].penalties
    IN  IF c.row.wall
        THEN grown + HeldIn(gs2.boards[p], c.row.idx) - HeldIn(gs.boards[p], c.row.idx)
                 <= taken
        ELSE grown = taken

\* C16: the first accepted move of a round that takes from the centre makes
\* the active player first_token_owner and adds one penalty tile more to that
\* player's board than the same move adds once the token is taken, whatever
\* row the move names.
C16_CentreFirstPick ==
    ~ panicked /\ first_token_owner = None =>
        \A c \in Range(get_valid_moves(State)) :
            c.bowl = CENTRE_BOWL_IDX =>
                LET first == make_move(State, c)
                    later == make_move([State EXCEPT !.first_token_owner = active_player], c)
                IN  /\ first.ok
                    /\ first.gs.first_token_owner = active_player
                    /\ first.gs.boards[active_player].penalties
                           = later.gs.boards[active_player].penalties + 1

\* C17: first_token_owner is None after GameState::new and after
\* setup_next_round; a move changes it only when it is None and the move is
\* an accepted draw from the centre; once it is set, every accepted draw from
\* the centre, by whichever player, leaves it as it is and adds no extra
\* penalty tile.
C17_TokenKept ==
    ~ panicked =>
        /\ last.op \in {"new", "setup_next_round"} => first_token_owner = None
        /\ first_token_owner # None =>
               \A o \in setup_next_round(State) :
                   ~ o.panic => o.gs.first_token_owner = None
        /\ \A c \in MoveInputsTwo :
               LET r == make_move(State, c)
               IN  /\ (~ r.ok \/ c.bowl # CENTRE_BOWL_IDX \/ first_token_owner # None)
                          => r.gs.first_token_owner = first_token_owner
                   /\ r.ok /\ first_token_owner # None => NoExtraPenalty(State, c, r.gs)
                   /\ r.ok /\ c.bowl = CENTRE_BOWL_IDX /\ first_token_owner = None =>
                          \A d \in MoveInputsTwo :
                              d.bowl = CENTRE_BOWL_IDX =>
                                  LET q == make_move(r.gs, d)
                                  IN  q.ok => /\ q.gs.first_token_owner = r.gs.first_token_owner
                                              /\ NoExtraPenalty(r.gs, d, q.gs)

\* C17 witness: two moves have left two tile types in the centre and no token
\* owner, so the next centre draw sets the owner and the other player can
\* draw from the centre after it; and a state where the owner is not the
\* active player
C17_Witness ==
    /\ last.op = "make_move" /\ last.ok
    /\ first_token_owner = None
    /\ Len(get_tile_types(bowls[CENTRE_BOWL_IDX])) >= 2
    /\ \E c, d \in Range(get_valid_moves(State)) :
          /\ c.bowl = CENTRE_BOWL_IDX /\ d.bowl = CENTRE_BOWL_IDX
          /\ c.tile_type # d.tile_type
          /\ LET r == make_move(State, c)
                 q == make_move(r.gs, d)
             IN  /\ r.ok /\ q.ok
                 /\ r.gs.first_token_owner # r.gs.active_player
                 /\ q.gs.first_token_owner = r.gs.first_token_owner


-----------------------------------------------------------------------------
(* Staging *)

\* C18: hold_tiles with row Floor leaves the holds as they were and adds
\* tile_count + penalty to the penalty counter.
C18_FloorAddsCountAndPenalty ==
    last.op = "hold_tiles" /\ ~ last.row.wall =>
        /\ last.ok
        /\ After.holds = last.before.holds
        /\ After.penalties = last.before.penalties + last.tile_count + last.penalty

\* C19: hold_tiles of tile_count tiles of type t onto Wall(i), whose row held
\* k tiles of type t, leaves min(k + tile_count, i + 1) tiles of type t in the
\* row and adds max(0, k + tile_count - (i + 1)) + penalty to the penalty
\* counter.
C19_WallAccumulates ==
    last.op = "hold_tiles" /\ last.ok /\ last.row.wall =>
        LET i == last.row.idx
            k == HeldIn(last.before, i)
        IN  /\ HeldIn(After, i) = Min(k + last.tile_count, i + 1)
            /\ \A c \in Idx : After.holds[i][c] \in {None, last.tile_type}
            /\ After.penalties = last.before.penalties
                                 + Max(0, k + last.tile_count - (i + 1))
                                 + last.penalty


-----------------------------------------------------------------------------
(* The winner *)

\* the number of boards get_winner is applied to
WinnerPlayers == 3

\* the scores of the boards get_winner is applied to
WinnerScores == {10, 15}

\* a grid whose first k rows are full
FullRows(k) ==
    [r \in Idx |-> [c \in Idx |-> IF r < k THEN get_tile_type_at_pos(r, c) ELSE None]]

\* boards with one of the scores and 0 .. BOARD_DIMENSION full rows
WinnerBoards ==
    {[DefaultBoard EXCEPT !.score = s, !.placed = FullRows(k)] :
        s \in WinnerScores, k \in 0 .. BOARD_DIMENSION}

InitWinner ==
    /\ \E bds \in [0 .. (WinnerPlayers - 1) -> WinnerBoards] :
          Holds([new(WinnerPlayers) EXCEPT !.boards = bds])
    /\ panicked = FALSE
    /\ rounds = 0
    /\ moves = 0
    /\ last = [op |-> "new", ok |-> TRUE, choice |-> NoMove, winner |-> 0]

\* the caller asks for the winner
GetWinner ==
    /\ last' = [op |-> "get_winner", ok |-> TRUE, choice |-> NoMove,
                winner |-> get_winner(State)]
    /\ UNCHANGED <<active_player, boards, bowls, bag, first_token_owner,
                   panicked, rounds, moves>>

NextWinner == GetWinner

SpecWinner == InitWinner /\ [][NextWinner]_vars

\* the number of full rows of a grid
CompletedRows(b) == Cardinality({r \in Idx : RowFull(b.placed, r)})

\* (score, completed rows) of board i is at most that of board j
PairAtMost(i, j) ==
    \/ boards[i].score < boards[j].score
    \/ /\ boards[i].score = boards[j].score
       /\ CompletedRows(boards[i]) <= CompletedRows(boards[j])

\* the boards have scores 10, 15, 15 and 0, 1, 2 completed rows
WinnerExample ==
    /\ DOMAIN boards = 0 .. 2
    /\ boards[0].score = 10 /\ boards[1].score = 15 /\ boards[2].score = 15
    /\ \A i \in 0 .. 2 : CompletedRows(boards[i]) = i

\* C20: get_winner returns the index of a board whose (score, completed
\* rows) is largest in lexicographic order; for scores 10, 15, 15 and
\* completed rows 0, 1, 2 it returns 2.
C20_WinnerIsMaximal ==
    last.op = "get_winner" =>
        /\ last.winner \in DOMAIN boards
        /\ \A i \in DOMAIN boards : PairAtMost(i, last.winner)
        /\ WinnerExample => last.winner = 2

\* C20 witness: get_winner was asked for the boards of the example and
\* answered 2
C20_Witness ==
    /\ last.op = "get_winner"
    /\ WinnerExample
    /\ last.winner = 2

\* C21: when several boards share the largest (score, completed rows),
\* get_winner returns the lowest index among them.
C21_TieLowestIndex ==
    last.op = "get_winner" =>
        \A i \in DOMAIN boards :
            (\A j \in DOMAIN boards : PairAtMost(j, i)) => last.winner <= i


-----------------------------------------------------------------------------
(* Whole rounds of a game of two *)

\* number of setup_next_round calls explored when whole rounds are played
MaxRoundsPlayed == 3

\* the move of a caller that always submits the first move get_valid_moves
\* lists (none when the list is empty)
caller_moves(gs) ==
    LET valid_moves == get_valid_moves(gs)
    IN  IF valid_moves = <<>> THEN {} ELSE {Head(valid_moves)}

InitPlay ==
    /\ Holds(new(TwoPlayers))
    /\ panicked = FALSE
    /\ rounds = 0
    /\ moves = 0
    /\ last = [op |-> "new", ok |-> TRUE, choice |-> NoMove]

\* the caller submits a move, in every round but the last one explored
MakeMovePlay ==
    /\ ~ panicked
    /\ rounds < MaxRoundsPlayed
    /\ \E choice \in caller_moves(State) :
          LET r == make_move(State, choice)
          IN  /\ Becomes(r.gs)
              /\ moves' = IF r.ok THEN moves + 1 ELSE moves
              /\ panicked' = r.panic
              /\ last' = [op |-> "make_move", ok |-> r.ok,
                          choice |-> IF r.ok THEN choice ELSE NoMove]
    /\ UNCHANGED rounds

\* the caller starts the next round, after GameState::new and whenever
\* round_over() holds after a move
SetupNextRoundPlay ==
    /\ ~ panicked
    /\ rounds < MaxRoundsPlayed
    /\ round_over(State)
    /\ \E o \in setup_next_round(State) :
          /\ Becomes(o.gs)
          /\ panicked' = o.panic
          /\ last' = [op |-> "setup_next_round", ok |-> ~ o.panic, choice |-> NoMove]
    /\ rounds' = rounds + 1
    /\ moves' = 0

NextPlay == MakeMovePlay \/ SetupNextRoundPlay

SpecPlay == InitPlay /\ [][NextPlay]_vars

C23_SetupNeverFaults ==
    last.op = "setup_next_round" => ~ panicked


-----------------------------------------------------------------------------
(* protocol.rs: parse_move *)

\* longest text given to parse_move
MaxMoveText == 7

\* the characters of the texts given to parse_move (ASCII, so that the
\* length in bytes is the number of characters and split_at never falls
\* inside a character)
MoveChars == {"0", "1", "+", "x"}

\* parse_move: the Result and the Move of an Ok
parse_move(input) ==
    IF Len(input) # 6
    THEN [ok |-> FALSE, move |-> NoMove]
    ELSE LET bowl == parse_usize(SubSeq(input, 1, 2))
             tile_type == parse_usize(SubSeq(input, 3, 4))
             row == parse_usize(SubSeq(input, 5, 6))
         IN  IF ~ bowl.ok \/ ~ tile_type.ok \/ ~ row.ok
             THEN [ok |-> FALSE, move |-> NoMove]
             ELSE [ok |-> TRUE,
                   move |-> Move(bowl.value, tile_type.value,
                                 IF row.value = 0 THEN Floor
                                 ELSE Wall(row.value - 1))]

InitParse ==
    /\ Holds(new(NumPlayers))
    /\ panicked = FALSE
    /\ rounds = 0
    /\ moves = 0
    /\ \E n \in 0 .. MaxMoveText : \E input \in [1 .. n -> MoveChars] :
          last = [op |-> "input", ok |-> TRUE, choice |-> NoMove, input |-> input]

\* the caller has a text parsed
ParseMove ==
    /\ last.op = "input"
    /\ LET r == parse_move(last.input)
       IN  last' = [op |-> "parse_move", ok |-> r.ok, choice |-> r.move,
                    input |-> last.input]
    /\ UNCHANGED <<active_player, boards, bowls, bag, first_token_owner,
                   panicked, rounds, moves>>

NextParse == ParseMove

SpecParse == InitParse /\ [][NextParse]_vars

\* C24: parse_move accepts a text exactly when it consists of 6 digits.
C24_SixDigitsOnly ==
    last.op = "parse_move" =>
        (last.ok <=> /\ Len(last.input) = 6
                     /\ \A i \in DOMAIN last.input : IsDigit(last.input[i]))


-----------------------------------------------------------------------------
(* parsing.rs: the decoders applied to texts *)

\* the text of n characters c
Repeat(c, n) == [i \in 1 .. n |-> c]

\* the texts of parts joined by sep
RECURSIVE JoinWith(_, _)
JoinWith(parts, sep) ==
    IF parts = <<>> THEN <<>>
    ELSE IF Len(parts) = 1 THEN parts[1]
    ELSE parts[1] \o sep \o JoinWith(Tail(parts), sep)

\* placed fields: no tile, every cell filled, one filled cell too many
PlacedTexts ==
    {JoinWith([k \in 1 .. BOARD_DIMENSION |-> to_string(BOARD_DIMENSION)], <<"/">>),
     JoinWith([k \in 1 .. BOARD_DIMENSION |-> Repeat("-", BOARD_DIMENSION)], <<"/">>),
     Repeat("-", BOARD_DIMENSION * BOARD_DIMENSION + 1)}

\* held fields: no tile, a last pair cut short, a character that is no digit
HeldTexts ==
    {Repeat("0", 2 * BOARD_DIMENSION),
     Repeat("0", 2 * BOARD_DIMENSION - 1),
     <<"x">> \o Repeat("0", 2 * BOARD_DIMENSION - 1)}

\* bonus fields of length D and of other lengths
RowBitTexts ==
    {Repeat("0", BOARD_DIMENSION), Repeat("1", BOARD_DIMENSION),
     Repeat("0", BOARD_DIMENSION - 1), Repeat("0", BOARD_DIMENSION + 1)}

ColumnBitTexts == {Repeat("0", BOARD_DIMENSION), Repeat("1", BOARD_DIMENSION + 1)}

TileTypeBitTexts == {Repeat("0", BOARD_DIMENSION), Repeat("1", BOARD_DIMENSION - 1)}

ScoreTexts == {<<"0">>, <<"x">>}

PenaltyTexts == {<<"3">>, <<"-">>}

\* the fields of board records: seven fields, the last one missing, one more
BoardFields ==
    LET seven == {<<p, h, r, c, t, sc, pe>> :
                     p \in PlacedTexts, h \in HeldTexts, r \in RowBitTexts,
                     c \in ColumnBitTexts, t \in TileTypeBitTexts,
                     sc \in ScoreTexts, pe \in PenaltyTexts}
    IN  seven \cup {SubSeq(f, 1, 6) : f \in seven} \cup {Append(f, <<"0">>) : f \in seven}

\* the record of a board without tiles, as Board::fmt_uci_like writes it
EmptyRecord == board_fmt_uci_like(DefaultBoard)

\* the indices written into the last section of a text
IndexTexts == 0 .. 3

\* an AzulFEN text of n empty boards, empty bowls, a bag of one tile of each
\* type, and the given active player and first token owner, written so that
\* every section ends where the decoder splits
StateText(n, active, first) ==
    Flatten([k \in 1 .. n |-> EmptyRecord \o <<" ">>])
    \o <<"|", " ">>
    \o Flatten([k \in 1 .. get_bowl_count(n) |-> <<"-", " ">>])
    \o <<"|", " ">>
    \o bag_fmt_uci_like([k \in 1 .. BOARD_DIMENSION |-> k - 1])
    \o <<"|", " ">>
    \o to_string(active) \o <<" ">>
    \o (IF first # None THEN to_string(first) ELSE <<"-">>)
    \o <<"\n">>

InitDecode ==
    /\ Holds(new(NumPlayers))
    /\ panicked = FALSE
    /\ rounds = 0
    /\ moves = 0
    /\ \/ \E f \in BoardFields :
             last = [op |-> "record", ok |-> TRUE, choice |-> NoMove,
                     fields |-> f, n |-> 0, active |-> 0, first |-> None]
       \/ \E n \in 1 .. TwoPlayers, a \in IndexTexts, o \in IndexTexts \cup {None} :
             last = [op |-> "text", ok |-> TRUE, choice |-> NoMove,
                     fields |-> <<>>, n |-> n, active |-> a, first |-> o]

\* Board::from_azul_fen is applied to the record
DecodeBoard ==
    /\ last.op = "record"
    /\ LET r == board_from_azul_fen(JoinWith(last.fields, <<" ">>))
       IN  /\ last' = [last EXCEPT !.op = "board_from_azul_fen", !.ok = r.ok]
           /\ panicked' = r.panic
    /\ UNCHANGED <<active_player, boards, bowls, bag, first_token_owner, rounds, moves>>

\* GameState::from_azul_fen is applied to the text; an Ok gives the engine
DecodeState ==
    /\ last.op = "text"
    /\ LET r == from_azul_fen(StateText(last.n, last.active, last.first))
       IN  /\ last' = [last EXCEPT !.op = "from_azul_fen", !.ok = r.ok]
           /\ panicked' = r.panic
           /\ IF r.ok THEN Becomes(r.gs)
              ELSE UNCHANGED <<active_player, boards, bowls, bag, first_token_owner>>
    /\ UNCHANGED <<rounds, moves>>

NextDecode == DecodeBoard \/ DecodeState

SpecDecode == InitDecode /\ [][NextDecode]_vars

\* C25: GameState::from_azul_fen rejects every text whose active player or
\* first token owner is not smaller than the number of board records.
C25_IndexInRange ==
    last.op = "from_azul_fen" /\
    (last.active >= last.n \/ (last.first # None /\ last.first >= last.n))
    => ~ last.ok /\ ~ panicked

\* C26: Board::from_azul_fen returns a parse failure for every record that
\* has not 7 fields, has a bonus field of a length other than D, or has a
\* score or penalties field that is no number.
C26_BoardRecordRejected ==
    last.op = "board_from_azul_fen" =>
        LET f == last.fields
        IN  (\/ Len(f) # 7
             \/ Len(f[3]) # BOARD_DIMENSION
             \/ Len(f[4]) # BOARD_DIMENSION
             \/ Len(f[5]) # BOARD_DIMENSION
             \/ ~ parse_usize(f[6]).ok
             \/ ~ parse_usize(f[7]).ok)
            => ~ last.ok /\ ~ panicked


-----------------------------------------------------------------------------
(* The effect of an accepted move *)

\* the sequences a and b hold the same tiles
SameTiles(a, b) == Len(a) = Len(b) /\ \A t \in Range(a) \cup Range(b) : CountIn(a, t) = CountIn(b, t)

\* the tiles of a bowl that are not of type t
OtherTypes(bowl, t) == SelectSeq(bowl, LAMBDA x : x # t)

\* C27: an accepted move on bowl b and type t leaves every bowl other than b
\* and the centre unchanged; if b is not the centre, b is empty and the
\* centre holds its old tiles and the tiles of b of other types; if b is the
\* centre, the centre holds its old tiles of other types; so no tile of type
\* t that was in b is left in a bowl.
C27_PoolEffect ==
    [][moves' = moves + 1 =>
          LET b == last'.choice.bowl
              t == last'.choice.tile_type
          IN  /\ DOMAIN bowls' = DOMAIN bowls
              /\ \A i \in DOMAIN bowls :
                     i # b /\ i # CENTRE_BOWL_IDX => bowls'[i] = bowls[i]
              /\ b # CENTRE_BOWL_IDX =>
                     /\ bowls'[b] = <<>>
                     /\ SameTiles(bowls'[CENTRE_BOWL_IDX],
                                  bowls[CENTRE_BOWL_IDX] \o OtherTypes(bowls[b], t))
              /\ b = CENTRE_BOWL_IDX =>
                     SameTiles(bowls'[CENTRE_BOWL_IDX], OtherTypes(bowls[b], t))
              /\ bowl_tiles(bowls', t) = bowl_tiles(bowls, t) - CountIn(bowls[b], t)
              /\ CountIn(bowls[b], t) > 0]_vars

\* C27 witness: a move on the centre was accepted, the centre keeps tiles of
\* another type and another bowl holds tiles
C27_Witness ==
    /\ last.op = "make_move" /\ last.ok
    /\ last.choice.bowl = CENTRE_BOWL_IDX
    /\ bowls[CENTRE_BOWL_IDX] # <<>>
    /\ \E i \in DOMAIN bowls : i # CENTRE_BOWL_IDX /\ bowls[i] # <<>>

-----------------------------------------------------------------------------
(* The refill *)

\* the tiles of the default tileset that are on no board
OffBoards(bds) ==
    SumSeq([k \in 1 .. BOARD_DIMENSION |-> TILES_PER_TYPE - used_tiles(bds, k - 1)])

\* the bowls bls2 are the bowls bls refilled: the centre as it was, every
\* other bowl with BOWL_CAPACITY tiles
Refilled(bls, bls2) ==
    /\ bls2[CENTRE_BOWL_IDX] = bls[CENTRE_BOWL_IDX]
    /\ \A i \in DOMAIN bls2 :
           i # CENTRE_BOWL_IDX => Len(bls2[i]) = BOWL_CAPACITY

RefilledFrom(bds, bls, bls2) ==
    /\ bls2[CENTRE_BOWL_IDX] = bls[CENTRE_BOWL_IDX]
    /\ \A i \in DOMAIN bls2 :
           i # CENTRE_BOWL_IDX =>
               /\ Len(bls2[i]) <= BOWL_CAPACITY
               /\ OffBoards(bds) >= BOWL_CAPACITY => Len(bls2[i]) = BOWL_CAPACITY

-----------------------------------------------------------------------------
(* The staging rows and their resolution *)

\* the number of tiles staged in a row
Staged(row) == Cardinality({c \in Idx : row[c] # None})

\* staging row i of a board holds i + 1 tiles
FullRow(b, i) == Staged(b.holds[i]) = i + 1

\* C31: in every state, staging row i of every board holds at most i + 1
\* tiles, its filled cells are the leading cells of the row, and all its tiles
\* are of the type of its first cell.
C31_StagingRows ==
    \A p \in DOMAIN boards : \A i \in Idx :
        LET row == boards[p].holds[i]
        IN  /\ Staged(row) <= i + 1
            /\ \A c \in Idx : row[c] # None <=> c < Staged(row)
            /\ \A c \in Idx : row[c] # None => row[c] = row[0]

\* C31 witness: hold_tiles has added tiles of the same type to the last
\* staging row, which held one tile, and the row is now full
C31_Witness ==
    /\ last.op = "hold_tiles" /\ last.ok
    /\ last.row = Wall(BOARD_DIMENSION - 1)
    /\ Staged(last.before.holds[BOARD_DIMENSION - 1]) = 1
    /\ last.before.holds[BOARD_DIMENSION - 1][0] = last.tile_type
    /\ FullRow(After, BOARD_DIMENSION - 1)

\* C32: a staged row never targets a filled cell: in every state the grid
\* cell (i, (t + i) mod D) of a staging row i holding type t is empty, and
\* every full row that place_holds resolved had its cell empty before the
\* call and holds its tile there after it.
C32_CellFilledOnce ==
    /\ \A p \in DOMAIN boards : \A i \in Idx :
           boards[p].holds[i][0] # None =>
               boards[p].placed[i][(boards[p].holds[i][0] + i) % BOARD_DIMENSION] = None
    /\ last.op = "place_holds" /\ ~ panicked =>
           \A i \in Idx :
               FullRow(last.before, i) =>
                   LET t == last.before.holds[i][0]
                       col == (t + i) % BOARD_DIMENSION
                   IN  /\ last.before.placed[i][col] = None
                       /\ After.placed[i][col] = t

\* C32 witness: place_holds has placed the tile of a full staging row into a
\* grid row that already held a tile from an earlier call
C32_Witness ==
    /\ last.op = "place_holds" /\ ~ panicked
    /\ \E i \in Idx :
          /\ FullRow(last.before, i)
          /\ \E c \in Idx : last.before.placed[i][c] # None
          /\ Cardinality({c \in Idx : After.placed[i][c] # None})
                 = Cardinality({c \in Idx : last.before.placed[i][c] # None}) + 1

\* C33: place_holds empties every full staging row and adds one tile of its
\* type to the same row of the grid, leaves every other staging row and its
\* grid row as they were, and leaves no staging row full.
C33_OnlyFullRows ==
    last.op = "place_holds" /\ ~ panicked =>
        \A i \in Idx :
            /\ ~ FullRow(After, i)
            /\ IF FullRow(last.before, i)
               THEN LET t == last.before.holds[i][0]
                    IN  /\ After.holds[i] = [c \in Idx |-> None]
                        /\ \E col \in Idx :
                              /\ last.before.placed[i][col] = None
                              /\ After.placed[i] =
                                     [last.before.placed[i] EXCEPT ![col] = t]
               ELSE /\ After.holds[i] = last.before.holds[i]
                    /\ After.placed[i] = last.before.placed[i]

\* C33 witness: place_holds has resolved a board with the first staging row
\* full and one tile in a longer row, which is still staged
C33_Witness ==
    /\ last.op = "place_holds" /\ ~ panicked
    /\ FullRow(last.before, 0)
    /\ Staged(last.before.holds[BOARD_DIMENSION - 1]) = 1
    /\ Staged(After.holds[BOARD_DIMENSION - 1]) = 1
    /\ Staged(After.holds[0]) = 0

\* the grid of the place_holds call made last once the full rows 0 .. i have
\* been placed
PlacedThrough(i) ==
    [r \in Idx |->
        IF r <= i /\ FullRow(last.before, r)
        THEN [last.before.placed[r] EXCEPT
                 ![(last.before.holds[r][0] + r) % BOARD_DIMENSION] =
                     last.before.holds[r][0]]
        ELSE last.before.placed[r]]

\* the points of the tile of full row i, scored on the grid with the tiles of
\* the full rows above it already placed
PointsOfRow(i) ==
    LET col == (last.before.holds[i][0] + i) % BOARD_DIMENSION
        h == HRun(PlacedThrough(i), i, col)
        v == VRun(PlacedThrough(i), i, col)
    IN  IF h = 1 /\ v = 1 THEN 1
        ELSE (IF h > 1 THEN h ELSE 0) + (IF v > 1 THEN v ELSE 0)

\* the placement points of the place_holds call made last
PlacementTotal ==
    SumSeq([k \in 1 .. BOARD_DIMENSION |->
               IF FullRow(last.before, k - 1) THEN PointsOfRow(k - 1) ELSE 0])

\* the points of the bonus flags the place_holds call made last has set
BonusTotal ==
    ROW_BONUS * Cardinality(Flipped("rows"))
    + COLUMN_BONUS * Cardinality(Flipped("columns"))
    + TILE_TYPE_BONUS * Cardinality(Flipped("tile_types"))

\* C34: place_holds scores the full rows from the first to the last, each on
\* the grid that holds the tiles of the rows before it, then adds the points
\* of the bonuses it claims, then subtracts the penalty value: the score
\* becomes max(0, score + placement points + bonus points - penalty value).
C34_ResolveOrder ==
    last.op = "place_holds" /\ ~ panicked =>
        After.score = saturating_sub(last.before.score + PlacementTotal + BonusTotal,
                                     PenaltyCost(last.before.penalties))

\* C34 witness: place_holds has placed the tiles of two adjacent full rows in
\* one column, the upper one beside a tile placed earlier, claimed a bonus and
\* subtracted penalties from a score that stayed above 0
C34_Witness ==
    /\ last.op = "place_holds" /\ ~ panicked
    /\ FullRow(last.before, 0) /\ FullRow(last.before, 1)
    /\ (last.before.holds[0][0] + 0) % BOARD_DIMENSION
           = (last.before.holds[1][0] + 1) % BOARD_DIMENSION
    /\ \E c \in Idx : last.before.placed[0][c] # None
    /\ PointsOfRow(1) > 1
    /\ BonusTotal > 0
    /\ last.before.penalties > 0
    /\ After.score > 0

-----------------------------------------------------------------------------
(* The moves of one round *)

\* the largest number of tiles setup_next_round leaves in the bowls of a
\* game of the given number of players when the centre is empty
RoundTiles(players) == BOWL_CAPACITY * (get_bowl_count(players) - 1)

\* the number of tiles held in all bowls
TilesInBowls(bls) ==
    SumSeq([k \in 1 .. Cardinality(DOMAIN bls) |-> Len(bls[k - 1])])

\* the moves a caller submits in state gs: every legal move, and one move
\* that names no bowl
round_inputs(gs) ==
    Range(get_valid_moves(gs)) \cup {Move(Cardinality(DOMAIN gs.bowls), 0, Floor)}

\* the caller submits a move; `moves` counts the moves accepted in the round
MakeMoveRound ==
    /\ ~ panicked
    /\ moves <= RoundTiles(NumPlayers)
    /\ \E choice \in round_inputs(State) :
          LET r == make_move(State, choice)
          IN  /\ Becomes(r.gs)
              /\ moves' = IF r.ok THEN moves + 1 ELSE moves
              /\ panicked' = r.panic
              /\ last' = [op |-> "make_move", ok |-> r.ok,
                          choice |-> IF r.ok THEN choice ELSE NoMove]
    /\ UNCHANGED rounds

\* the caller starts the next round when round_over() holds
SetupNextRoundRound ==
    /\ ~ panicked
    /\ rounds < MaxRounds
    /\ round_over(State)
    /\ \E o \in setup_next_round(State) :
          /\ Becomes(o.gs)
          /\ panicked' = o.panic
          /\ last' = [op |-> "setup_next_round", ok |-> ~ o.panic, choice |-> NoMove]
    /\ rounds' = rounds + 1
    /\ moves' = 0

NextRound == MakeMoveRound \/ SetupNextRoundRound

SpecRound == Init /\ [][NextRound]_vars

\* C35: every accepted move lowers the number of tiles held in the bowls, and
\* in a round started by setup_next_round the moves accepted so far and the
\* tiles still in the bowls are together at most BOWL_CAPACITY * (2P + 1): a
\* round takes at most that many accepted moves, and round_over() holds when
\* that many have been accepted.
C35_RoundTerminates ==
    /\ [][moves' = moves + 1 =>
            TilesInBowls(bowls') < TilesInBowls(bowls)]_vars
    /\ [](/\ RoundTiles(NumPlayers) = BOWL_CAPACITY * (2 * NumPlayers + 1)
          /\ moves + TilesInBowls(bowls) <= RoundTiles(NumPlayers)
          /\ moves = RoundTiles(NumPlayers) => round_over(State)
          /\ TilesInBowls(bowls) = 0 <=> round_over(State))

\* C35 witness: the second round is over after more than one accepted move,
\* the last of which took the tiles left in the centre
C35_Witness ==
    /\ rounds = 2 /\ ~ panicked
    /\ last.op = "make_move" /\ last.ok
    /\ last.choice.bowl = CENTRE_BOWL_IDX
    /\ moves > BOWL_CAPACITY
    /\ round_over(State)

-----------------------------------------------------------------------------
(* The end of the game *)

\* the boards bds2 hold every placed tile of the boards bds where it was,
\* and no board has fewer complete rows
GridsKept(bds, bds2) ==
    \A p \in DOMAIN bds :
        /\ \A r \in Idx : \A c \in Idx :
               bds[p].placed[r][c] # None => bds2[p].placed[r][c] = bds[p].placed[r][c]
        /\ count_horizontal_lines(bds2[p]) >= count_horizontal_lines(bds[p])

\* is_game_over() after a step
GameOverNext == \E p \in DOMAIN boards' : count_horizontal_lines(boards'[p]) > 0

-----------------------------------------------------------------------------
(* The board record *)

\* the record of a board as GameState::from_azul_fen hands it to the board
\* decoder: the text of the encoder up to its ';', trimmed
BoardRecord(b) == trim(split(board_fmt_uci_like(b), <<";">>)[1])

\* C37: for every board reached by hold_tiles and place_holds, decoding the
\* record the encoder writes for it returns Ok with a board equal to it in
\* staging rows, grid (tile types included), bonus flags, score and
\* penalties.
C37_BoardRoundTrip ==
    ~ panicked =>
        \A p \in DOMAIN boards :
            LET r == board_from_azul_fen(BoardRecord(boards[p]))
            IN  /\ r.ok /\ ~ r.panic
                /\ r.board.holds = boards[p].holds
                /\ r.board.placed = boards[p].placed
                /\ r.board.bonuses = boards[p].bonuses
                /\ r.board.score = boards[p].score
                /\ r.board.penalties = boards[p].penalties

\* C37 witness: a board with a tile placed off the first row, where the type
\* differs from the column, a staging row partly filled, a bonus claimed,
\* penalties and a score of two digits, whose record decodes to it
C37_Witness ==
    \E p \in DOMAIN boards :
        /\ \E r \in Idx \ {0} : \E c \in Idx :
               boards[p].placed[r][c] # None /\ boards[p].placed[r][c] # c
        /\ Staged(boards[p].holds[BOARD_DIMENSION - 1]) = 1
        /\ \E i \in Idx : boards[p].bonuses.rows[i]
        /\ boards[p].penalties > 0
        /\ boards[p].score >= 10
        /\ board_from_azul_fen(BoardRecord(boards[p])).board = boards[p]

-----------------------------------------------------------------------------
(* The order of the tiles of a bowl *)

\* the tiles of a sequence are in non-decreasing order
Sorted(s) == \A j \in 1 .. (Len(s) - 1) : s[j] <= s[j + 1]

\* C38: in every state every bowl holds its tiles in non-decreasing order of
\* type, its record is "-" when it is empty and otherwise the digits of its
\* tiles in that order, and get_tile_types lists each type it holds once.
C38_BowlsSorted ==
    \A i \in DOMAIN bowls :
        /\ Sorted(bowls[i])
        /\ bowl_fmt_uci_like(bowls[i]) =
               IF Len(bowls[i]) = 0 THEN <<"-">>
               ELSE [k \in 1 .. Len(bowls[i]) |-> Digits[Sort(bowls[i])[k] + 1]]
        /\ NoDuplicates(get_tile_types(bowls[i]))
        /\ Range(get_tile_types(bowls[i])) = Range(bowls[i])

\* C38 witness: an accepted move from another bowl has left the centre with
\* tiles of two types, and another bowl still holds tiles
C38_Witness ==
    /\ last.op = "make_move" /\ last.ok
    /\ last.choice.bowl # CENTRE_BOWL_IDX
    /\ Len(get_tile_types(bowls[CENTRE_BOWL_IDX])) = 2
    /\ \E i \in DOMAIN bowls : i # CENTRE_BOWL_IDX /\ bowls[i] # <<>>
====
